---- MODULE Spec2Model ----
(***************************************************************************)
(* n8n Kubernetes version manager: identity resolution, deployment         *)
(* lifecycle (deploy-version.sh / remove-version.sh behind the FastAPI     *)
(* endpoints and the deploy form), the wait-for-deletion poll, the         *)
(* snapshot store (creation, listing), the pages that call a destructive   *)
(* operation, and the custom values of a deploy request.                   *)
(*                                                                         *)
(* Strings are sequences of one-character strings, so that the string      *)
(* operations of the code (replace, split, int, regular expressions,       *)
(* cksum) are computed character by character.                             *)
(***************************************************************************)
EXTENDS Integers, Sequences, FiniteSets, TLC

(***************************************************************************)
(* Bounds of the model                                                     *)
(***************************************************************************)
MaxNameLen == 3        \* custom names of every length 0..MaxNameLen are enumerated
MaxMajor == 2          \* version triples major.minor.patch with major in 0..MaxMajor
MaxMinor == 11         \*   minor in 0..MaxMinor (one and two digits)
MaxPatch == 1          \*   patch in 0..MaxPatch
MaxNow == 6            \* the release feed is followed for minutes 0..MaxNow
MaxInFlight == 2       \* at most MaxInFlight delete requests of the panel are in flight

(***************************************************************************)
(* Characters                                                              *)
(***************************************************************************)
Digits == <<"0", "1", "2", "3", "4", "5", "6", "7", "8", "9">>
Lowers == <<"a", "b", "c", "d", "e", "f", "g", "h", "i", "j", "k", "l", "m",
            "n", "o", "p", "q", "r", "s", "t", "u", "v", "w", "x", "y", "z">>
Uppers == <<"A", "B", "C", "D", "E", "F", "G", "H", "I", "J", "K", "L", "M",
            "N", "O", "P", "Q", "R", "S", "T", "U", "V", "W", "X", "Y", "Z">>

Range(s) == {s[i] : i \in 1..Len(s)}
IndexOf(s, c) == CHOOSE i \in 1..Len(s) : s[i] = c

DigitChars == Range(Digits)
LowerAlnum == Range(Lowers) \cup DigitChars            \* [a-z0-9]
LowerAlnumHyphen == LowerAlnum \cup {"-"}              \* [a-z0-9-]

\* The byte a character is written as (ASCII), as `echo -n` hands it to cksum.
Ord(c) ==
  IF c \in DigitChars THEN 47 + IndexOf(Digits, c)
  ELSE IF c \in Range(Lowers) THEN 96 + IndexOf(Lowers, c)
  ELSE IF c \in Range(Uppers) THEN 64 + IndexOf(Uppers, c)
  ELSE IF c = "-" THEN 45
  ELSE IF c = "." THEN 46
  ELSE 95                                              \* "_"

\* k copies of the character c
Rep(c, k) == [i \in 1..k |-> c]

(***************************************************************************)
(* Python / shell string operations used by the code                       *)
(***************************************************************************)
\* str.replace(from, to) for single characters
replace(s, from, to) == [i \in 1..Len(s) |-> IF s[i] = from THEN to ELSE s[i]]

\* str.split(sep): the pieces between the separators
RECURSIVE split(_, _)
split(s, sep) ==
  IF \A i \in 1..Len(s) : s[i] # sep THEN <<s>>
  ELSE LET k == CHOOSE i \in 1..Len(s) :
                  s[i] = sep /\ \A j \in 1..(i - 1) : s[j] # sep
       IN  <<SubSeq(s, 1, k - 1)>> \o split(SubSeq(s, k + 1, Len(s)), sep)

\* int(s) for a string of decimal digits
RECURSIVE int(_)
int(s) ==
  IF s = <<>> THEN 0
  ELSE 10 * int(SubSeq(s, 1, Len(s) - 1)) + (IndexOf(Digits, s[Len(s)]) - 1)

\* The decimal rendering of a natural number (how a version part is typed)
RECURSIVE Dec(_)
Dec(n) == IF n < 10 THEN <<Digits[n + 1]>> ELSE Dec(n \div 10) \o <<Digits[(n % 10) + 1]>>

(***************************************************************************)
(* cksum (POSIX CRC over the bytes followed by the byte count), kept as    *)
(* 32 bits, most significant first                                         *)
(***************************************************************************)
\* The generator polynomial 0x04C11DB7
CrcPoly == <<0,0,0,0, 0,1,0,0, 1,1,0,0, 0,0,0,1, 0,0,0,1, 1,1,0,1, 1,0,1,1, 0,1,1,1>>
CrcZero == [i \in 1..32 |-> 0]

Xor(a, b) == [i \in 1..Len(a) |-> (a[i] + b[i]) % 2]
ShiftLeft(a) == Tail(a) \o <<0>>
\* The byte b in the top eight bits of a 32-bit word
TopByte(b) ==
  [i \in 1..32 |->
     IF i = 1 THEN (b \div 128) % 2 ELSE IF i = 2 THEN (b \div 64) % 2
     ELSE IF i = 3 THEN (b \div 32) % 2 ELSE IF i = 4 THEN (b \div 16) % 2
     ELSE IF i = 5 THEN (b \div 8) % 2 ELSE IF i = 6 THEN (b \div 4) % 2
     ELSE IF i = 7 THEN (b \div 2) % 2 ELSE IF i = 8 THEN b % 2 ELSE 0]

RECURSIVE CrcShift(_, _)
CrcShift(crc, k) ==
  IF k = 0 THEN crc
  ELSE CrcShift(IF crc[1] = 1 THEN Xor(ShiftLeft(crc), CrcPoly) ELSE ShiftLeft(crc),
                k - 1)
CrcByte(crc, b) == CrcShift(Xor(crc, TopByte(b)), 8)

\* The register after the bytes of s, taken first to last.  (The bytes are taken
\* half by half and a bit of the register is read in between, which keeps TLC's
\* evaluation shallow; the order of the bytes is unchanged.)
RECURSIVE CrcBytes(_, _)
CrcBytes(crc, s) ==
  IF s = <<>> THEN crc
  ELSE IF Len(s) = 1 THEN CrcByte(crc, Ord(s[1]))
  ELSE LET h == Len(s) \div 2
           left == CrcBytes(crc, SubSeq(s, 1, h))
       IN  IF left[1] \notin {0, 1} THEN left
           ELSE CrcBytes(left, SubSeq(s, h + 1, Len(s)))

\* the byte count, least significant byte first, until it is exhausted
RECURSIVE CrcLength(_, _)
CrcLength(crc, n) ==
  IF n = 0 THEN crc ELSE CrcLength(CrcByte(crc, n % 256), n \div 256)

cksum(s) ==
  LET crc == CrcLength(CrcBytes(CrcZero, s), Len(s))
  IN  [i \in 1..32 |-> 1 - crc[i]]

\* awk's `$1 % m` on the decimal number cksum prints
RECURSIVE ModBits(_, _, _)
ModBits(bits, m, acc) ==
  IF bits = <<>> THEN acc ELSE ModBits(Tail(bits), m, (2 * acc + Head(bits)) % m)
Mod(bits, m) == ModBits(bits, m, 0)

(***************************************************************************)
(* Identity derivation: deploy-version.sh and the deploy endpoint          *)
(***************************************************************************)
N8nV == <<"n", "8", "n", "-", "v">>
NoName == <<>>

\* Variant: the checksum reduced modulo 10000, which leaves 30000..30999
hashPortWide(name) == 30000 + Mod(cksum(name), 10000)

\* PORT=$(echo -n "$CUSTOM_NAME" | cksum | awk '{print 30000 + ($1 % 1000)}')
hashPort(name) == 30000 + Mod(cksum(name), 1000)

\* namespace = f"n8n-v{request.version.replace('.', '-')}"
autoNamespace(version) == N8nV \o replace(version, ".", "-")

\* Variant: the port taken from minor and patch instead of major and minor
autoPortSlipped(version) ==
  LET version_parts == split(version, ".")
  IN  30000 + (int(version_parts[2]) * 100) + int(version_parts[3])

\* port = 30000 + (int(version_parts[0]) * 100) + int(version_parts[1])
autoPort(version) ==
  LET version_parts == split(version, ".")
  IN  30000 + (int(version_parts[1]) * 100) + int(version_parts[2])

\* the conditional namespace logic of deploy-version.sh
deriveIdentity(version, name) ==
  IF name # NoName
  THEN [namespace |-> name, releaseName |-> name, port |-> hashPort(name)]
  ELSE [namespace |-> autoNamespace(version), releaseName |-> autoNamespace(version),
        port |-> autoPort(version)]

\* Variant: validateName without the test of the last character
validateNameOpenEnd(value) ==
  IF value = <<>> THEN TRUE
  ELSE /\ \A i \in 1..Len(value) : value[i] \in LowerAlnumHyphen
       /\ Len(value) <= 63
       /\ value[1] \in LowerAlnum

\* validateName of the deploy form
validateName(value) ==
  IF value = <<>> THEN TRUE
  ELSE /\ \A i \in 1..Len(value) : value[i] \in LowerAlnumHyphen
       /\ Len(value) <= 63
       /\ value[1] \in LowerAlnum
       /\ value[Len(value)] \in LowerAlnum

(***************************************************************************)
(* Version extraction of the list endpoint                                 *)
(***************************************************************************)
Unknown == <<"u", "n", "k", "n", "o", "w", "n">>

\* (\d+): the length of the longest run of digits of s that starts at i
RECURSIVE DigitRun(_, _)
DigitRun(s, i) ==
  IF i <= Len(s) /\ s[i] \in DigitChars THEN 1 + DigitRun(s, i + 1) ELSE 0

\* The groups of n8n-v(\d+)-(\d+)-(\d+) matched at position i of s, or <<>>
MatchAt(s, i) ==
  LET p1 == i + Len(N8nV)
      d1 == DigitRun(s, p1)
      p2 == p1 + d1 + 1
      d2 == DigitRun(s, p2)
      p3 == p2 + d2 + 1
      d3 == DigitRun(s, p3)
  IN  IF /\ i + Len(N8nV) - 1 <= Len(s)
         /\ SubSeq(s, i, i + Len(N8nV) - 1) = N8nV
         /\ d1 > 0 /\ p1 + d1 <= Len(s) /\ s[p1 + d1] = "-"
         /\ d2 > 0 /\ p2 + d2 <= Len(s) /\ s[p2 + d2] = "-"
         /\ d3 > 0
      THEN <<SubSeq(s, p1, p1 + d1 - 1), SubSeq(s, p2, p2 + d2 - 1),
             SubSeq(s, p3, p3 + d3 - 1)>>
      ELSE <<>>

\* re.search(r'n8n-v(\d+)-(\d+)-(\d+)', s): the leftmost match anywhere in s
re_search(s) ==
  LET starts == {i \in 1..Len(s) : MatchAt(s, i) # <<>>}
  IN  IF starts = {} THEN <<>>
      ELSE MatchAt(s, CHOOSE i \in starts : \A j \in starts : i <= j)

\* str.strip()
RECURSIVE strip(_)
strip(s) ==
  IF s = <<>> THEN s
  ELSE IF s[1] = " " THEN strip(Tail(s))
  ELSE IF s[Len(s)] = " " THEN strip(SubSeq(s, 1, Len(s) - 1))
  ELSE s

\* Variant: the version label is read first, the name only without a label
parseLabelFirst(namespace, stdout, raised) ==
  LET version_match == re_search(namespace)
  IN  IF ~raised /\ strip(stdout) # <<>> THEN strip(stdout)
      ELSE IF version_match # <<>>
      THEN version_match[1] \o <<".">> \o version_match[2] \o <<".">> \o version_match[3]
      ELSE Unknown

\* parse_deployment_info: the version of a namespace, from its name when the
\* pattern is found in it, else from what kubectl prints for its version label
\* (stdout), "unknown" when that is empty or the call raised.
parse_deployment_info(namespace, stdout, raised) ==
  LET version_match == re_search(namespace)
  IN  IF version_match # <<>>
      THEN version_match[1] \o <<".">> \o version_match[2] \o <<".">> \o version_match[3]
      ELSE IF raised THEN Unknown
      ELSE IF strip(stdout) # <<>> THEN strip(stdout)
      ELSE Unknown

(***************************************************************************)
(* State                                                                   *)
(***************************************************************************)
VARIABLES
  form,        \* per create request: the submitted form {version, name, isolatedDb}
  pc,          \* per create request: where it stands
  result,      \* per create request: what the caller is told
  identity,    \* per create request: the identity deploy-version.sh derived
  log,         \* per create request: what it did (history)
  cluster,     \* the platform's namespaces: name -> {phase, version label, creator}
  releases,    \* the installed releases: {namespace, releaseName, by}
  snapshots,   \* the pre-deploy snapshot files: {suffix, by}
  rm,          \* the remove request: {pc, target, ELAPSED, exit, error}
  rmlog,       \* the remove request: what it saw (history)
  rmResult,    \* the remove request: what the caller is told
  listing,     \* the last deployment info the list endpoint extracted
  ui,          \* the web pages: component state, mutations pending, API calls made
  compose,     \* the custom values of a deploy request and what is built from them
  feed,        \* the release feed cache: _cache, the time, the last call (history)
  pod,         \* the temporary pod tmp-list of n8n-system: who runs it, or nobody
  files,       \* the backup volume: <<directory, file name>> -> content
  jobs,        \* the snapshot Jobs of n8n-system: Job name -> {pc, NAME, SOURCE, file}
  clock,       \* the second shown by `date`
  dbUp,        \* whether the database answers pg_isready
  snap         \* per snapshot request: operation, arguments, position, result, history

vars == <<form, pc, result, identity, log, cluster, releases, snapshots, rm, rmlog, rmResult,
          listing, files, jobs, clock, dbUp, snap, ui, compose, feed, pod>>
lifeVars == <<form, pc, result, identity, log, cluster, releases, snapshots, rm, rmlog,
              rmResult, listing>>
dataVars == <<files, jobs, clock, dbUp, snap>>
auxVars == <<feed, pod>>
pageVars == <<ui, compose, auxVars>>
\* What the lifecycle leaves alone, and what the snapshot operations leave alone
storeVars == <<dataVars, pageVars>>
deployVars == <<lifeVars, pageVars>>
createVars == <<form, pc, result, identity, log>>
removeVars == <<rm, rmlog, rmResult>>

Requests == {"r1", "r2"}

NoForm == [version |-> <<>>, name |-> NoName, isolatedDb |-> FALSE]
NoIdentity == [namespace |-> <<>>, releaseName |-> <<>>, port |-> 0]
NoLog == [checked |-> FALSE, installIssued |-> FALSE, snapshotTried |-> FALSE,
          snapshotOk |-> FALSE, existedAtInstall |-> FALSE, created |-> FALSE]
NoRemove == [pc |-> "idle", target |-> <<>>, ELAPSED |-> 0, exit |-> 0, error |-> "none"]
NoListing == [namespace |-> <<>>, stdout |-> <<>>, raised |-> FALSE, version |-> <<>>]
NoRemoveLog == [sawAbsent |-> FALSE, goneAtExit |-> FALSE, polls |-> 0, looped |-> FALSE,
                existedAtStart |-> FALSE]

\* What is typed into the version field for major.minor.patch
VersionString(v) == Dec(v[1]) \o <<".">> \o Dec(v[2]) \o <<".">> \o Dec(v[3])

Exists(ns) == ns \in DOMAIN cluster                     \* kubectl get namespace "$NAMESPACE"

(***************************************************************************)
(* create: deploy form -> POST /api/versions -> deploy-version.sh          *)
(***************************************************************************)
\* handleDeploy of the deploy form: the request is sent only for a non-empty
\* version and a custom name that is empty or valid.
handleDeploy(r, inputs) ==
  /\ pc[r] = "idle"
  /\ \E in \in inputs :
       /\ form' = [form EXCEPT ![r] = in]
       /\ IF in.version = <<>>
          THEN /\ result' = [result EXCEPT ![r] = "VersionRequired"]
               /\ pc' = [pc EXCEPT ![r] = "done"]
          ELSE IF in.name # NoName /\ ~validateName(in.name)
          THEN /\ result' = [result EXCEPT ![r] = "InvalidInput"]
               /\ pc' = [pc EXCEPT ![r] = "done"]
          ELSE /\ result' = result
               /\ pc' = [pc EXCEPT ![r] = "script"]
  /\ UNCHANGED <<storeVars, listing, identity, log, cluster, releases, snapshots, removeVars>>

\* Variant: the existence check placed after the pre-deploy snapshot, so that a
\* refused request has already written one
checkNamespaceLate(r) ==
  /\ pc[r] = "script"
  /\ LET id == deriveIdentity(form[r].version, form[r].name)
     IN  /\ identity' = [identity EXCEPT ![r] = id]
         /\ IF Exists(id.namespace)
            THEN /\ result' = [result EXCEPT ![r] = "Conflict"]
                 /\ pc' = [pc EXCEPT ![r] = "done"]
                 /\ log' = [log EXCEPT ![r].checked = TRUE, ![r].snapshotTried = TRUE,
                                       ![r].snapshotOk = TRUE]
                 /\ snapshots' = snapshots \cup
                                   {[suffix |-> <<"p", "r", "e", "-", "v">> \o form[r].version,
                                     by |-> r]}
            ELSE /\ result' = result
                 /\ pc' = [pc EXCEPT ![r] = "install"]
                 /\ log' = [log EXCEPT ![r].checked = TRUE]
                 /\ snapshots' = snapshots
  /\ UNCHANGED <<storeVars, listing, form, cluster, releases, removeVars>>

\* deploy-version.sh: derive namespace, release name and port, then refuse if
\* the namespace already exists (exit 1, which the endpoint reports as a failure).
checkNamespace(r) ==
  /\ pc[r] = "script"
  /\ LET id == deriveIdentity(form[r].version, form[r].name)
     IN  /\ identity' = [identity EXCEPT ![r] = id]
         /\ log' = [log EXCEPT ![r].checked = TRUE]
         /\ IF Exists(id.namespace)
            THEN /\ result' = [result EXCEPT ![r] = "Conflict"]
                 /\ pc' = [pc EXCEPT ![r] = "done"]
            ELSE /\ result' = result
                 /\ pc' = [pc EXCEPT ![r] = "install"]
  /\ UNCHANGED <<storeVars, listing, form, cluster, releases, snapshots, removeVars>>

PreV == <<"p", "r", "e", "-", "v">>

\* What follows the pre-deploy snapshot attempt: the deployment proceeds whether
\* or not the dump succeeded.
afterSnapshot(ok) == "create"

\* What helm install does with an accepted release: --create-namespace creates
\* the namespace when it is absent, and the release is recorded; the chart labels
\* what it creates with version: {{ .Values.n8nVersion }}.
Installed(r) ==
  LET ns == identity[r].namespace
  IN  /\ cluster' = IF Exists(ns) THEN cluster
                    ELSE [n \in DOMAIN cluster \cup {ns} |->
                            IF n = ns
                            THEN [phase |-> "Active", label |-> form[r].version, by |-> r]
                            ELSE cluster[n]]
      /\ releases' = releases \cup
                       {[namespace |-> ns, releaseName |-> identity[r].releaseName, by |-> r]}

\* helm refuses a release name that is in use in the namespace, and nothing can
\* be created in a namespace that is being deleted.
NameInUse(r) ==
  \/ \E d \in releases : /\ d.namespace = identity[r].namespace
                         /\ d.releaseName = identity[r].releaseName
  \/ /\ Exists(identity[r].namespace)
     /\ cluster[identity[r].namespace].phase = "Terminating"

\* Variant: an install that never runs the pre-install hook
helmInstallNoHook(r) ==
  /\ pc[r] = "install"
  /\ log' = [log EXCEPT ![r].installIssued = TRUE,
                        ![r].existedAtInstall = Exists(identity[r].namespace)]
  /\ IF NameInUse(r)
     THEN /\ result' = [result EXCEPT ![r] = "InstallFailed"]
          /\ pc' = [pc EXCEPT ![r] = "done"]
          /\ UNCHANGED <<cluster, releases>>
     ELSE /\ result' = result
          /\ pc' = [pc EXCEPT ![r] = "create"]
          /\ Installed(r)
  /\ UNCHANGED <<storeVars, listing, form, identity, snapshots, removeVars>>

\* Variant: an install that accepts a release name that is in use
helmInstallReusing(r) ==
  /\ pc[r] = "install"
  /\ log' = [log EXCEPT ![r].installIssued = TRUE,
                        ![r].existedAtInstall = Exists(identity[r].namespace)]
  /\ result' = result
  /\ pc' = [pc EXCEPT ![r] = IF form[r].isolatedDb THEN "create" ELSE "hook"]
  /\ Installed(r)
  /\ UNCHANGED <<storeVars, listing, form, identity, snapshots, removeVars>>

\* deploy-version.sh: eval "$HELM_CMD" (helm install "$RELEASE_NAME" ... --namespace
\* "$NAMESPACE" --create-namespace).  The script puts no condition of its own on
\* this step; a refused install ends the script with a failure.  With the shared
\* database the chart's pre-install hook runs next.
helmInstall(r) ==
  /\ pc[r] = "install"
  /\ log' = [log EXCEPT ![r].installIssued = TRUE,
                        ![r].existedAtInstall = Exists(identity[r].namespace)]
  /\ IF NameInUse(r)
     THEN /\ result' = [result EXCEPT ![r] = "InstallFailed"]
          /\ pc' = [pc EXCEPT ![r] = "done"]
          /\ UNCHANGED <<cluster, releases>>
     ELSE /\ result' = result
          /\ pc' = [pc EXCEPT ![r] = IF form[r].isolatedDb THEN "create" ELSE "hook"]
          /\ Installed(r)
  /\ UNCHANGED <<storeVars, listing, form, identity, snapshots, removeVars>>

\* The pre-install hook Job (shared database only):
\* pg_dump ... > /backups/n8n-$(date +%Y%m%d-%H%M%S)-pre-v${NEW_VERSION}.sql
preInstallHook(r) ==
  /\ pc[r] = "hook"
  /\ \E ok \in BOOLEAN :
       /\ snapshots' = IF ok
                       THEN snapshots \cup {[suffix |-> PreV \o form[r].version, by |-> r]}
                       ELSE snapshots
       /\ log' = [log EXCEPT ![r].snapshotTried = TRUE, ![r].snapshotOk = ok]
       /\ pc' = [pc EXCEPT ![r] = afterSnapshot(ok)]
  /\ UNCHANGED <<storeVars, listing, form, result, identity, cluster, releases, removeVars>>

\* "n8n pods deployed with specified image tag and mode": the install completes
\* unless the release was uninstalled in the meantime.
createResources(r) ==
  /\ pc[r] = "create"
  /\ LET ns == identity[r].namespace
         mine == [namespace |-> ns, releaseName |-> identity[r].releaseName, by |-> r]
     IN  result' = [result EXCEPT ![r] =
                      IF mine \in releases /\ Exists(ns) /\ cluster[ns].phase = "Active"
                      THEN "Success" ELSE "InstallFailed"]
  /\ log' = [log EXCEPT ![r].created = TRUE]
  /\ pc' = [pc EXCEPT ![r] = "done"]
  /\ UNCHANGED <<storeVars, listing, form, identity, cluster, releases, snapshots, removeVars>>

(***************************************************************************)
(* remove: DELETE /api/versions/{version} -> remove-version.sh ->          *)
(* wait-for-namespace-deletion.sh                                          *)
(***************************************************************************)
MAX_WAIT == 120        \* MAX_WAIT=120  # 2 minutes max
PollInterval == 2      \* sleep 2; ELAPSED=$((ELAPSED + 2))

\* remove-version.sh: a namespace that does not exist is reported NotFound;
\* otherwise the release is uninstalled and the namespace deleted (it stays
\* Terminating until the platform has torn it down), then the wait script runs.
removeVersion(targets) ==
  /\ rm.pc = "idle"
  /\ \E t \in targets :
       IF ~Exists(t)
       THEN /\ rm' = [rm EXCEPT !.pc = "exited", !.target = t, !.exit = 1,
                                !.error = "NotFound"]
            /\ rmlog' = rmlog
            /\ UNCHANGED <<storeVars, listing, cluster, releases>>
       ELSE /\ rm' = [rm EXCEPT !.pc = "wait", !.target = t]
            /\ rmlog' = [rmlog EXCEPT !.existedAtStart = TRUE]
            /\ releases' = {d \in releases : d.namespace # t}
            /\ cluster' = [cluster EXCEPT ![t].phase = "Terminating"]
  /\ UNCHANGED <<storeVars, listing, createVars, snapshots, rmResult>>

\* The platform finishes tearing a Terminating namespace down.
namespaceGone ==
  /\ \E n \in DOMAIN cluster :
       /\ cluster[n].phase = "Terminating"
       /\ cluster' = [m \in DOMAIN cluster \ {n} |-> cluster[m]]
  /\ UNCHANGED <<storeVars, listing, createVars, releases, snapshots, removeVars>>

\* wait-for-namespace-deletion.sh, "Check if namespace exists": exit 0 when it
\* does not, else ELAPSED=0 and the loop.
waitCheck ==
  /\ rm.pc = "wait"
  /\ IF ~Exists(rm.target)
     THEN /\ rm' = [rm EXCEPT !.pc = "exited", !.exit = 0]
          /\ rmlog' = [rmlog EXCEPT !.sawAbsent = TRUE]
     ELSE /\ rm' = [rm EXCEPT !.pc = "loop", !.ELAPSED = 0]
          /\ rmlog' = rmlog
  /\ UNCHANGED <<storeVars, listing, createVars, cluster, releases, snapshots, rmResult>>

\* Variant: a loop turn that sleeps without counting the time slept
waitPollUncounted ==
  /\ rm.pc = "loop"
  /\ rm.ELAPSED < MAX_WAIT
  /\ IF ~Exists(rm.target)
     THEN /\ rm' = [rm EXCEPT !.pc = "exited", !.exit = 0]
          /\ rmlog' = [rmlog EXCEPT !.sawAbsent = TRUE, !.polls = @ + 1, !.looped = TRUE]
     ELSE /\ rm' = rm
          /\ rmlog' = [rmlog EXCEPT !.polls = @ + 1, !.looped = TRUE]
  /\ UNCHANGED <<storeVars, listing, createVars, cluster, releases, snapshots, rmResult>>

\* One turn of `while [ $ELAPSED -lt $MAX_WAIT ]`: exit 0 when the namespace is
\* gone, else sleep and count.
waitPoll ==
  /\ rm.pc = "loop"
  /\ rm.ELAPSED < MAX_WAIT
  /\ IF ~Exists(rm.target)
     THEN /\ rm' = [rm EXCEPT !.pc = "exited", !.exit = 0]
          /\ rmlog' = [rmlog EXCEPT !.sawAbsent = TRUE, !.polls = @ + 1, !.looped = TRUE]
     ELSE /\ rm' = [rm EXCEPT !.ELAPSED = @ + PollInterval]
          /\ rmlog' = [rmlog EXCEPT !.polls = @ + 1, !.looped = TRUE]
  /\ UNCHANGED <<storeVars, listing, createVars, cluster, releases, snapshots, rmResult>>

\* Variant: the bound reached without an error (exit 0)
waitTimeoutQuiet ==
  /\ rm.pc = "loop"
  /\ ~(rm.ELAPSED < MAX_WAIT)
  /\ rm' = [rm EXCEPT !.pc = "exited", !.exit = 0]
  /\ UNCHANGED <<storeVars, listing, createVars, cluster, releases, snapshots, rmlog, rmResult>>

\* After the loop: "ERROR: Namespace ... still exists after ${MAX_WAIT}s"; exit 1
waitTimeout ==
  /\ rm.pc = "loop"
  /\ ~(rm.ELAPSED < MAX_WAIT)
  /\ rm' = [rm EXCEPT !.pc = "exited", !.exit = 1, !.error = "StillTerminating"]
  /\ UNCHANGED <<storeVars, listing, createVars, cluster, releases, snapshots, rmlog, rmResult>>

\* Variant: the return code of the script ignored
removeOutcomeIgnoring(returncode, error) == "Success"

\* remove_version: a non-zero return code is answered as a failure
removeOutcome(returncode, error) == IF returncode # 0 THEN error ELSE "Success"

removeRespond ==
  /\ rm.pc = "exited"
  /\ rmResult' = removeOutcome(rm.exit, rm.error)
  /\ rm' = [rm EXCEPT !.pc = "done"]
  /\ UNCHANGED <<storeVars, listing, createVars, cluster, releases, snapshots, rmlog>>

(***************************************************************************)
(* list: GET /api/versions -> parse_deployment_info                        *)
(***************************************************************************)
\* kubectl get namespace ... -o jsonpath={.metadata.labels.version}: the label,
\* nothing when the namespace has none or does not exist
LabelOutput(n) == IF Exists(n) THEN cluster[n].label ELSE <<>>

\* The endpoint extracts the deployment info of a namespace of the cluster; the
\* kubectl call may raise.
getDeploymentInfo ==
  /\ \E n \in DOMAIN cluster, raised \in BOOLEAN :
       listing' = [namespace |-> n, stdout |-> LabelOutput(n), raised |-> raised,
                   version |-> parse_deployment_info(n, LabelOutput(n), raised)]
  /\ UNCHANGED <<storeVars, createVars, cluster, releases, snapshots, removeVars>>

(***************************************************************************)
(* Snapshot store: create-snapshot.sh, create-named-snapshot.sh and the     *)
(* Jobs they start, list-snapshots.sh                                      *)
(***************************************************************************)
MaxClock == 2          \* `date` shows the seconds 0..MaxClock

SnapRequests == {"s1", "s2"}
Shared == <<"s", "h", "a", "r", "e", "d">>
DotSql == <<".", "s", "q", "l">>
DotMeta == <<".", "m", "e", "t", "a">>
Backups == "/backups/"
Snapshots == "/backups/snapshots/"

NoSnap == [op |-> "none", NAME |-> <<>>, SOURCE |-> <<>>, pc |-> "idle", TIMESTAMP |-> <<>>,
           exit |-> 0, result |-> "none", createdJob |-> FALSE, dbSeen |-> FALSE,
           io |-> FALSE, before |-> <<>>, MODE |-> "none", todo |-> <<>>,
           out |-> [named |-> {}, auto |-> {}]]

StoreIdle ==
  /\ files = <<>>
  /\ jobs = <<>>
  /\ clock = 0
  /\ dbUp = TRUE
  /\ snap = [s \in SnapRequests |-> NoSnap]

\* date +%Y%m%d-%H%M%S at second c of 2026-01-19 12:00
Timestamp(c) ==
  <<"2", "0", "2", "6", "0", "1", "1", "9", "-", "1", "2", "0", "0", "0">> \o Dec(c)

N8nDash == <<"n", "8", "n", "-">>
ManualSql == <<"-", "m", "a", "n", "u", "a", "l">> \o DotSql
ManualSnapshot ==
  <<"m", "a", "n", "u", "a", "l", "-", "s", "n", "a", "p", "s", "h", "o", "t", "-">>

\* A file of the volume: who wrote it and what it holds
Content(job, body) ==
  [by |-> job, body |-> body, name |-> jobs[job].NAME, source |-> jobs[job].SOURCE]

\* Writing path p (created, or replaced when it exists)
Write(p, c) == [q \in DOMAIN files \cup {p} |-> IF q = p THEN c ELSE files[q]]

\* [[ "$NAME" =~ ^[a-zA-Z0-9_-]+$ ]]
LabelChars == Range(Lowers) \cup Range(Uppers) \cup DigitChars \cup {"_", "-"}
\* Variant: a validation that also lets the dot through
validNameDotted(NAME) ==
  NAME # <<>> /\ \A i \in 1..Len(NAME) : NAME[i] \in LabelChars \cup {"."}

validName(NAME) == NAME # <<>> /\ \A i \in 1..Len(NAME) : NAME[i] \in LabelChars

\* const isValidName = /^[a-zA-Z0-9_-]+$/.test(name) of the upload dialog
isValidName(name) == Len(name) >= 1 /\ \A i \in 1..Len(name) : name[i] \in LabelChars

SnapshotDash == <<"s", "n", "a", "p", "s", "h", "o", "t", "-">>

\* metadata.name of the Job a request applies
JobName(q) ==
  IF q.op = "automatic" THEN ManualSnapshot \o q.TIMESTAMP
  ELSE SnapshotDash \o q.NAME \o <<"-">> \o q.TIMESTAMP

\* BACKUP_FILE of a request, with its directory
BackupFile(q) ==
  IF q.op = "automatic" THEN <<Backups, N8nDash \o q.TIMESTAMP \o ManualSql>>
  ELSE <<Snapshots, q.NAME \o DotSql>>

MetaFile(f) == <<f[1], f[2] \o DotMeta>>

\* create_snapshot -> create-snapshot.sh: TIMESTAMP=$(date ...), BACKUP_FILE
createSnapshot(s) ==
  /\ snap[s].pc = "idle"
  /\ snap' = [snap EXCEPT ![s] = [@ EXCEPT !.op = "automatic", !.NAME = <<>>,
                                           !.SOURCE = Shared,
                                           !.TIMESTAMP = Timestamp(clock),
                                           !.dbSeen = dbUp, !.pc = "apply"]]
  /\ UNCHANGED <<deployVars, files, jobs, clock, dbUp>>

\* create-named-snapshot.sh up to the Job: usage, name validation, source
\* namespace, TIMESTAMP and BACKUP_FILE
createNamedSnapshot(s, names, sources) ==
  /\ snap[s].pc = "idle"
  /\ \E NAME \in names, SOURCE \in sources :
       LET q == [snap[s] EXCEPT !.op = "named", !.NAME = NAME, !.SOURCE = SOURCE,
                                !.dbSeen = dbUp,
                                !.before = [f \in DOMAIN files \cap
                                                  {<<Snapshots, NAME \o DotSql>>,
                                                   <<Snapshots, NAME \o DotSql \o DotMeta>>}
                                              |-> files[f]]]
       IN  snap' = [snap EXCEPT ![s] =
             IF NAME = <<>>
             THEN [q EXCEPT !.pc = "exited", !.exit = 1, !.result = "Usage"]
             ELSE IF ~validName(NAME)
             THEN [q EXCEPT !.pc = "exited", !.exit = 1, !.result = "InvalidName"]
             ELSE IF SOURCE # Shared /\ ~Exists(SOURCE)
             THEN [q EXCEPT !.pc = "exited", !.exit = 1, !.result = "NamespaceNotFound",
                            !.io = TRUE]
             ELSE [q EXCEPT !.pc = "apply", !.TIMESTAMP = Timestamp(clock),
                            !.io = (SOURCE # Shared)]]
  /\ UNCHANGED <<deployVars, files, jobs, clock, dbUp>>

\* cat <<EOF | kubectl apply -f -: the Job is created; a Job of that name with
\* the same manifest is left unchanged, one with another manifest cannot be
\* updated (set -e ends the script).
kubectlApply(s) ==
  /\ snap[s].pc = "apply"
  /\ LET q == snap[s]
         j == JobName(q)
         manifest == [pc |-> "waiting", kind |-> q.op, NAME |-> q.NAME, SOURCE |-> q.SOURCE,
                      file |-> BackupFile(q)]
     IN  IF j \notin DOMAIN jobs
         THEN /\ jobs' = [k \in DOMAIN jobs \cup {j} |-> IF k = j THEN manifest ELSE jobs[k]]
              /\ snap' = [snap EXCEPT ![s].pc = "exited", ![s].exit = 0,
                                      ![s].createdJob = TRUE, ![s].io = TRUE]
         ELSE /\ jobs' = jobs
              /\ snap' = [snap EXCEPT ![s].pc = "exited", ![s].io = TRUE,
                                      ![s].exit =
                                        IF [jobs[j] EXCEPT !.pc = "waiting"] = manifest
                                        THEN 0 ELSE 1,
                                      ![s].result =
                                        IF [jobs[j] EXCEPT !.pc = "waiting"] = manifest
                                        THEN @ ELSE "ApplyFailed"]
  /\ UNCHANGED <<deployVars, files, clock, dbUp>>

\* create_snapshot: a non-zero return code is answered as a failure, anything
\* else as "Snapshot creation started"
snapOutcome(returncode, error) == IF returncode # 0 THEN error ELSE "Success"

snapRespond(s) ==
  /\ snap[s].pc = "exited"
  /\ snap' = [snap EXCEPT ![s].pc = "done",
                          ![s].result = snapOutcome(snap[s].exit, snap[s].result)]
  /\ UNCHANGED <<deployVars, files, jobs, clock, dbUp>>

\* The Job: until pg_isready ...; then pg_dump ... > "$BACKUP_FILE" opens the
\* file (created, or emptied when it exists)
jobDumpStart(j) ==
  /\ j \in DOMAIN jobs
  /\ jobs[j].pc = "waiting"
  /\ dbUp
  /\ files' = Write(jobs[j].file, Content(j, "empty"))
  /\ jobs' = [jobs EXCEPT ![j].pc = "dumping"]
  /\ UNCHANGED <<deployVars, clock, dbUp, snap>>

\* pg_dump ends: with the dump written, or with an error (set -e ends the
\* container, restartPolicy OnFailure starts it again)
jobDumpEnd(j) ==
  /\ j \in DOMAIN jobs
  /\ jobs[j].pc = "dumping"
  /\ \E ok \in (IF dbUp THEN BOOLEAN ELSE {FALSE}) :
       IF ok
       THEN /\ files' = Write(jobs[j].file, Content(j, "dump"))
            /\ jobs' = [jobs EXCEPT ![j].pc = "dumped"]
       ELSE /\ files' = Write(jobs[j].file, Content(j, "partial"))
            /\ jobs' = [jobs EXCEPT ![j].pc = "waiting"]
  /\ UNCHANGED <<deployVars, clock, dbUp, snap>>

\* if [ -f "$BACKUP_FILE" ]: the named Job writes the metadata file
jobFinish(j) ==
  /\ j \in DOMAIN jobs
  /\ jobs[j].pc = "dumped"
  /\ files' = IF jobs[j].kind = "named" /\ jobs[j].file \in DOMAIN files
              THEN Write(MetaFile(jobs[j].file), Content(j, "meta"))
              ELSE files
  /\ jobs' = [jobs EXCEPT ![j].pc = "complete"]
  /\ UNCHANGED <<deployVars, clock, dbUp, snap>>

\* The Upload button of the dialog is disabled unless a file is chosen and the
\* name is valid; handleUpload then sends the file and the name.
handleUpload(s, names) ==
  /\ snap[s].pc = "idle"
  /\ \E file \in BOOLEAN, name \in names :
       LET q == [snap[s] EXCEPT !.op = "upload", !.NAME = name]
           disabled == ~file \/ name = <<>> \/ ~isValidName(name)
       IN  snap' = [snap EXCEPT ![s] =
                      IF disabled THEN [q EXCEPT !.pc = "done", !.result = "Disabled"]
                      ELSE IF file /\ name # <<>>
                      THEN [q EXCEPT !.pc = "uploading", !.io = TRUE]
                      ELSE [q EXCEPT !.pc = "done", !.result = "Disabled"]]
  /\ UNCHANGED <<deployVars, files, jobs, clock, dbUp>>

\* The upload endpoint stores the file as {name}.sql with its metadata file.
uploadStore(s) ==
  /\ snap[s].pc = "uploading"
  /\ LET f == <<Snapshots, snap[s].NAME \o DotSql>>
         c == [by |-> s, name |-> snap[s].NAME, source |-> <<"u", "p", "l", "o", "a", "d">>]
     IN  files' = [p \in DOMAIN files \cup {f, MetaFile(f)} |->
                     IF p = f THEN [body |-> "dump"] @@ c
                     ELSE IF p = MetaFile(f) THEN [body |-> "meta"] @@ c
                     ELSE files[p]]
  /\ snap' = [snap EXCEPT ![s].pc = "done", ![s].result = "Success"]
  /\ UNCHANGED <<deployVars, jobs, clock, dbUp>>

StartsWith(s, prefix) == Len(s) >= Len(prefix) /\ SubSeq(s, 1, Len(prefix)) = prefix
EndsWith(s, suffix) ==
  Len(s) >= Len(suffix) /\ SubSeq(s, Len(s) - Len(suffix) + 1, Len(s)) = suffix

\* ls -1 "$path": the entries of the directory, the subdirectory included
list_files(path) ==
  {f[2] : f \in {g \in DOMAIN files : g[1] = path}}
  \cup (IF path = Backups /\ \E g \in DOMAIN files : g[1] = Snapshots
        THEN {<<"s", "n", "a", "p", "s", "h", "o", "t", "s">>} ELSE {})

\* grep '\.sql$' | grep -v '\.meta$'
grepSql(lines) == {l \in lines : EndsWith(l, DotSql) /\ ~EndsWith(l, DotMeta)}

\* grep '^n8n-.*\.sql$' | grep -v '\.meta$'
grepAuto(lines) ==
  {l \in lines : /\ StartsWith(l, N8nDash)
                 /\ EndsWith(l, DotSql)
                 /\ Len(l) >= Len(N8nDash) + Len(DotSql)
                 /\ ~EndsWith(l, DotMeta)}

\* list-snapshots.sh [--named-only|--auto-only]: the named snapshots are the
\* .sql entries of /backups/snapshots/, the timestamped ones the n8n-*.sql
\* entries of /backups/
listSnapshots(s, modes) ==
  /\ snap[s].pc = "idle"
  /\ \E MODE \in modes :
       snap' = [snap EXCEPT ![s] =
                  [@ EXCEPT !.op = "list", !.MODE = MODE, !.pc = "done", !.io = TRUE,
                            !.result = "Success",
                            !.out = [named |-> IF MODE = "--auto-only" THEN {}
                                               ELSE grepSql(list_files(Snapshots)),
                                     auto |-> IF MODE = "--named-only" THEN {}
                                              ELSE grepAuto(list_files(Backups))]]]
  /\ UNCHANGED <<deployVars, files, jobs, clock, dbUp>>

\* A second passes
tick ==
  /\ clock < MaxClock
  /\ clock' = clock + 1
  /\ UNCHANGED <<deployVars, files, jobs, dbUp, snap>>

\* The database becomes unreachable, or reachable again
dbChange ==
  /\ dbUp' = ~dbUp
  /\ snap' = [s \in SnapRequests |->
                IF snap[s].pc \in {"apply", "exited"} /\ ~dbUp
                THEN [snap[s] EXCEPT !.dbSeen = TRUE] ELSE snap[s]]
  /\ UNCHANGED <<deployVars, files, jobs, clock>>

(***************************************************************************)
(* The web pages: the components that call a destructive operation         *)
(***************************************************************************)
Null == <<>>     \* null and '' alike: both are falsy

NoUi == [deleteVersion |-> Null, restoreSnapshot |-> Null, namespace |-> <<>>,
         selectedSnapshot |-> <<>>, showRestoreWarning |-> FALSE,
         deletingSnapshot |-> Null, deletes |-> <<>>, pending |-> {}, calls |-> {},
         answer |-> "none",
         restored |-> {}]

\* Whether the page shows, at this moment, the warning of the operation: the
\* AlertDialog of VersionsTable and of SnapshotsSection is open while its state
\* is set; StatusTab renders its warning under showRestoreWarning &&
\* selectedSnapshot; SnapshotsPanel renders nothing for a deletion
WarningShown(u, op) ==
  CASE op = "remove" -> u.deleteVersion # Null
    [] op = "restore" -> u.restoreSnapshot # Null
    [] op = "restore-to-deployment" -> u.showRestoreWarning /\ u.selectedSnapshot # <<>>
    [] op = "delete-snapshot" -> FALSE

\* mutation.mutate(...): the API call leaves the page
Mutate(u, op, snapshot, target) ==
  [u EXCEPT !.pending = @ \cup {op},
            !.calls = @ \cup {[op |-> op, snapshot |-> snapshot, target |-> target,
                                warned |-> WarningShown(u, op)]}]

ListedNamed == grepSql(list_files(Snapshots))
ListedSnapshots == ListedNamed \cup grepAuto(list_files(Backups))
ListedVersions == {cluster[n].label : n \in DOMAIN cluster}

\* VersionsTable: the Delete button of a row sets deleteVersion and opens the
\* dialog; closing the dialog sets it to null
setDeleteVersion(versions) ==
  /\ \E v \in versions \cup {Null} :
       /\ IF v = Null THEN ui.deleteVersion # Null ELSE "remove" \notin ui.pending
       /\ ui' = [ui EXCEPT !.deleteVersion = v]
  /\ UNCHANGED <<lifeVars, dataVars, compose, auxVars>>

\* VersionsTable: the Delete action of the dialog,
\* deleteVersion && removeMutation.mutate(deleteVersion); the dialog closes
removeMutate ==
  /\ ui.deleteVersion # Null
  /\ ui' = [Mutate(ui, "remove", <<>>, ui.deleteVersion) EXCEPT !.deleteVersion = Null]
  /\ UNCHANGED <<lifeVars, dataVars, compose, auxVars>>

\* VersionsTable: onSuccess and onError of removeMutation
removeSettled ==
  /\ "remove" \in ui.pending
  /\ ui' = [ui EXCEPT !.pending = @ \ {"remove"}, !.deleteVersion = Null]
  /\ UNCHANGED <<lifeVars, dataVars, compose, auxVars>>

\* SnapshotsSection: the Restore button of a row opens the dialog; closing
\* the dialog sets restoreSnapshot to null
setRestoreSnapshot(filenames) ==
  /\ \E f \in filenames \cup {Null} :
       /\ IF f = Null THEN ui.restoreSnapshot # Null ELSE "restore" \notin ui.pending
       /\ ui' = [ui EXCEPT !.restoreSnapshot = f]
  /\ UNCHANGED <<lifeVars, dataVars, compose, auxVars>>

\* SnapshotsSection: the Restore action of the dialog,
\* restoreSnapshot && restoreMutation.mutate(restoreSnapshot)
restoreMutate ==
  /\ ui.restoreSnapshot # Null
  /\ ui' = [Mutate(ui, "restore", ui.restoreSnapshot, <<>>) EXCEPT !.restoreSnapshot = Null]
  /\ UNCHANGED <<lifeVars, dataVars, compose, auxVars>>

\* SnapshotsSection: onSuccess and onError of restoreMutation
restoreSettled ==
  /\ "restore" \in ui.pending
  /\ ui' = [ui EXCEPT !.pending = @ \ {"restore"}, !.restoreSnapshot = Null]
  /\ UNCHANGED <<lifeVars, dataVars, compose, auxVars>>

\* Variant: a selection that does not bring the warning up
onValueChangeQuiet(filenames) ==
  /\ \E v \in filenames : ui' = [ui EXCEPT !.selectedSnapshot = v]
  /\ UNCHANGED <<lifeVars, dataVars, compose, auxVars>>

\* StatusTab: the Select of the snapshot to restore into this deployment
onValueChange(filenames) ==
  /\ \E v \in filenames :
       ui' = [ui EXCEPT !.selectedSnapshot = v, !.showRestoreWarning = (v # <<>>)]
  /\ UNCHANGED <<lifeVars, dataVars, compose, auxVars>>

\* StatusTab: the Restore button (disabled without a selection and while the
\* restore is pending) calls handleRestore
handleRestore ==
  /\ ui.selectedSnapshot # <<>>
  /\ "restore-to-deployment" \notin ui.pending
  /\ ui' = [Mutate(ui, "restore-to-deployment", ui.selectedSnapshot, ui.namespace)
              EXCEPT !.answer = "none"]
  /\ UNCHANGED <<lifeVars, dataVars, compose, auxVars>>

\* The operation behind POST /api/snapshots/restore-to-deployment: it needs
\* the target namespace and the snapshot, and overwrites the database of the
\* target
targetMissingIgnored(namespace, filename) == "Success"

restoreToDeployment(namespace, filename) ==
  IF namespace \notin DOMAIN cluster THEN "TargetNotFound"
  ELSE IF filename \notin ListedSnapshots THEN "NotFound"
  ELSE "Success"

restoreToDeploymentRun ==
  /\ "restore-to-deployment" \in ui.pending
  /\ ui.answer = "none"
  /\ LET outcome == restoreToDeployment(ui.namespace, ui.selectedSnapshot)
     IN  ui' = [ui EXCEPT !.answer = outcome,
                          !.restored = IF outcome = "Success"
                                       THEN @ \cup {[target |-> ui.namespace,
                                                     snapshot |-> ui.selectedSnapshot]}
                                       ELSE @]
  /\ UNCHANGED <<lifeVars, dataVars, compose, auxVars>>

\* StatusTab: onSuccess of restoreMutation; a success clears the selection and
\* the warning, a failure shows the error and keeps them
restoreToDeploymentSettled ==
  /\ "restore-to-deployment" \in ui.pending
  /\ ui.answer # "none"
  /\ ui' = [ui EXCEPT !.pending = @ \ {"restore-to-deployment"},
                      !.selectedSnapshot = IF ui.answer = "Success" THEN <<>> ELSE @,
                      !.showRestoreWarning = IF ui.answer = "Success" THEN FALSE ELSE @]
  /\ UNCHANGED <<lifeVars, dataVars, compose, auxVars>>

\* SnapshotsPanel: the Delete button of a named snapshot (disabled while
\* deletingSnapshot is that snapshot) calls handleDelete, which sets
\* deletingSnapshot and calls deleteMutation.mutate(filename); every call is a
\* request of its own
handleDelete(filenames) ==
  /\ Len(ui.deletes) < MaxInFlight
  /\ \E filename \in filenames :
       /\ ui.deletingSnapshot # filename
       /\ ui' = [Mutate(ui, "delete-snapshot", filename, <<>>)
                   EXCEPT !.deletingSnapshot = filename,
                          !.deletes = Append(@, filename)]
  /\ UNCHANGED <<lifeVars, dataVars, compose, auxVars>>

\* SnapshotsPanel: onSuccess and onError of deleteMutation for one of the
\* requests in flight: both set deletingSnapshot to null; the deletion has
\* removed the file and its metadata file, or has failed
deleteSettled ==
  /\ \E i \in 1..MaxInFlight, success \in BOOLEAN :
       /\ i <= Len(ui.deletes)
       /\ LET filename == ui.deletes[i]
              rest == SubSeq(ui.deletes, 1, i - 1) \o SubSeq(ui.deletes, i + 1, Len(ui.deletes))
          IN  /\ files' = IF success
                          THEN [f \in DOMAIN files \ {<<Snapshots, filename>>,
                                                      <<Snapshots, filename \o DotMeta>>}
                                  |-> files[f]]
                          ELSE files
              /\ ui' = [ui EXCEPT !.deletes = rest,
                                  !.pending = IF rest = <<>> THEN @ \ {"delete-snapshot"}
                                              ELSE @,
                                  !.deletingSnapshot = Null]
  /\ UNCHANGED <<lifeVars, jobs, clock, dbUp, snap, compose, auxVars>>

(***************************************************************************)
(* The custom values of a deploy request                                   *)
(***************************************************************************)
\* A YAML node, and a Python value: a mapping (dict), a string, an integer, a
\* sequence (list) or null (None); an Optional field is <<>> for None and <<x>>
\* for the value x
Map(m) == [tag |-> "map", m |-> m]
Str(x) == [tag |-> "str", v |-> x]
Integer(n) == [tag |-> "int", n |-> n]
List(items) == [tag |-> "seq", items |-> items]
NoneValue == [tag |-> "null"]
isDict(x) == x.tag = "map"

NoCustom == [envVars |-> <<>>, resources |-> <<>>, workerReplicas |-> <<>>, rawYaml |-> <<>>]
NoCompose == [pc |-> "idle", custom |-> NoCustom, values |-> <<>>, raised |-> FALSE,
              valuesFile |-> FALSE, cmd |-> FALSE]

\* The tokens of a document in flow style
Punctuation == {"{", "}", "[", "]", ":", ","}
IntOf == [n \in {"0", "1", "2"} |-> CASE n = "0" -> 0 [] n = "1" -> 1 [] n = "2" -> 2]

\* A plain scalar is resolved to null, to an integer or to a string
Scalar(tok) ==
  IF tok \in {"null", "~"} THEN NoneValue
  ELSE IF tok \in DOMAIN IntOf THEN Integer(IntOf[tok])
  ELSE Str(tok)

YAMLError == [ok |-> FALSE, val |-> NoneValue, next |-> 0]
Parsed(val, next) == [ok |-> TRUE, val |-> val, next |-> next]

RECURSIVE ParseNode(_, _)
RECURSIVE ParseEntries(_, _, _)
RECURSIVE ParseItems(_, _, _)

\* The node that starts at token i
ParseNode(t, i) ==
  IF i > Len(t) THEN YAMLError
  ELSE IF t[i] = "{" THEN ParseEntries(t, i + 1, <<>>)
  ELSE IF t[i] = "[" THEN ParseItems(t, i + 1, <<>>)
  ELSE IF t[i] \in Punctuation THEN YAMLError
  ELSE Parsed(Scalar(t[i]), i + 1)

\* The entries of a flow mapping up to its closing brace; a key given twice
\* keeps its last value
ParseEntries(t, i, acc) ==
  IF i > Len(t) THEN YAMLError
  ELSE IF t[i] = "}" THEN Parsed(Map(acc), i + 1)
  ELSE IF t[i] \in Punctuation \/ i + 1 > Len(t) \/ t[i + 1] # ":" THEN YAMLError
  ELSE LET value == ParseNode(t, i + 2)
           entry == [k \in {t[i]} |-> value.val]
       IN  IF ~value.ok \/ value.next > Len(t) THEN YAMLError
           ELSE IF t[value.next] = "," THEN ParseEntries(t, value.next + 1, entry @@ acc)
           ELSE IF t[value.next] = "}" THEN Parsed(Map(entry @@ acc), value.next + 1)
           ELSE YAMLError

\* The items of a flow sequence up to its closing bracket
ParseItems(t, i, acc) ==
  IF i > Len(t) THEN YAMLError
  ELSE IF t[i] = "]" THEN Parsed(List(acc), i + 1)
  ELSE LET item == ParseNode(t, i)
       IN  IF ~item.ok \/ item.next > Len(t) THEN YAMLError
           ELSE IF t[item.next] = "," THEN ParseItems(t, item.next + 1, Append(acc, item.val))
           ELSE IF t[item.next] = "]" THEN Parsed(List(Append(acc, item.val)), item.next + 1)
           ELSE YAMLError

\* yaml.safe_load: the document, None for an empty one, or YAMLError
safe_load(text) ==
  IF text = <<>> THEN Parsed(NoneValue, 1)
  ELSE LET node == ParseNode(text, 1)
       IN  IF node.ok /\ node.next = Len(text) + 1 THEN node ELSE YAMLError

shallow_merge(base, override) ==
  [key \in DOMAIN base \cup DOMAIN override |->
     IF key \in DOMAIN override THEN override[key] ELSE base[key]]

RECURSIVE deep_merge(_, _)
deep_merge(base, override) ==
  [key \in DOMAIN base \cup DOMAIN override |->
     IF key \in DOMAIN override
     THEN IF key \in DOMAIN base /\ isDict(base[key]) /\ isDict(override[key])
          THEN Map(deep_merge(base[key].m, override[key].m))
          ELSE override[key]
     ELSE base[key]]

Truthy(optional) == optional # <<>> /\ optional[1] # ""
Entry(key, value) == [k \in {key} |-> value]

\* build_helm_values, before the raw override: extraEnv from the variables (a
\* key given twice keeps its last value), resources.main.limits, replicas.workers
structured_values(custom) ==
  LET envVars == custom.envVars
      extraEnv ==
        IF envVars # <<>>
        THEN Entry("extraEnv",
                   Map([key \in {envVars[i].key : i \in 1..Len(envVars)} |->
                          Str(envVars[CHOOSE i \in 1..Len(envVars) :
                                        /\ envVars[i].key = key
                                        /\ \A j \in 1..Len(envVars) :
                                             envVars[j].key = key => j <= i].value)]))
        ELSE <<>>
      limits ==
        (IF custom.resources # <<>> /\ Truthy(custom.resources[1].cpu)
         THEN Entry("cpu", Str(custom.resources[1].cpu[1])) ELSE <<>>)
        @@ (IF custom.resources # <<>> /\ Truthy(custom.resources[1].memory)
            THEN Entry("memory", Str(custom.resources[1].memory[1])) ELSE <<>>)
      resources ==
        IF custom.resources # <<>>
           /\ (Truthy(custom.resources[1].cpu) \/ Truthy(custom.resources[1].memory))
        THEN Entry("resources", Map(Entry("main", Map(Entry("limits", Map(limits))))))
        ELSE <<>>
      replicas ==
        IF custom.workerReplicas # <<>>
        THEN Entry("replicas", Map(Entry("workers", Integer(custom.workerReplicas[1]))))
        ELSE <<>>
  IN  extraEnv @@ resources @@ replicas

\* build_helm_values without the type check and the except clause
build_helm_values_unguarded(custom) ==
  LET values == structured_values(custom)
      raw_values == safe_load(custom.rawYaml)
  IN  IF custom.rawYaml # <<>>
      THEN IF ~raw_values.ok THEN [raised |-> TRUE, values |-> values]
           ELSE [raised |-> FALSE,
                 values |-> IF isDict(raw_values.val)
                            THEN deep_merge(values, raw_values.val.m)
                            ELSE Entry("value", raw_values.val)]
      ELSE [raised |-> FALSE, values |-> values]

\* build_helm_values: the raw override is merged over the values when it loads
\* as a dict; a YAMLError is caught and ignored
build_helm_values(custom) ==
  LET values == structured_values(custom)
      raw_values == safe_load(custom.rawYaml)
  IN  [raised |-> FALSE,
       values |-> IF custom.rawYaml # <<>> /\ raw_values.ok /\ isDict(raw_values.val)
                  THEN deep_merge(values, raw_values.val.m)
                  ELSE values]

\* deploy_version, if request.custom_values: the values are built and, unless
\* empty, written to a file handed to deploy-version.sh with --values-file;
\* then the command runs
deploy_version_values ==
  /\ compose.pc = "request"
  /\ LET helm_values == build_helm_values(compose.custom)
     IN  compose' = [compose EXCEPT !.pc = "run",
                                    !.values = helm_values.values,
                                    !.raised = helm_values.raised,
                                    !.valuesFile = ~helm_values.raised
                                                   /\ helm_values.values # <<>>,
                                    !.cmd = ~helm_values.raised]
  /\ UNCHANGED <<lifeVars, dataVars, ui, auxVars>>

(***************************************************************************)
(* The release feed cache of GET /api/versions/available                   *)
(***************************************************************************)
Ttl == 5             \* timedelta(minutes=5)
TopReleases == 20    \* releases[:20]

\* _cache, with the minute of the clock and, as history, the last call: when it
\* was made, what the cache held and when the feed had last been fetched with
\* success, whether a request was sent and how it ended, what was answered
NoCall == [at |-> 0, cached |-> <<>>, fetchedAt |-> <<>>, sent |-> FALSE,
           outcome |-> "none", versions |-> <<>>, raised |-> FALSE]
NoFeed == [versions |-> <<>>, expires |-> <<>>, now |-> 0, fetchedAt |-> <<>>,
           fetched |-> <<>>, lastRequest |-> <<>>, burst |-> FALSE, calls |-> 0,
           call |-> NoCall]

\* str.replace(old, new) for strings of any length
RECURSIVE str_replace(_, _, _)
str_replace(s, old, new) ==
  IF Len(s) < Len(old) \/ old = <<>> THEN s
  ELSE IF SubSeq(s, 1, Len(old)) = old
  THEN new \o str_replace(SubSeq(s, Len(old) + 1, Len(s)), old, new)
  ELSE <<s[1]>> \o str_replace(Tail(s), old, new)

Min(a, b) == IF a <= b THEN a ELSE b

\* The tag names of the top releases that are neither draft nor prerelease,
\* without 'n8n@' and without 'v'
extractVersions(json) ==
  LET top == SubSeq(json, 1, Min(Len(json), TopReleases))
      kept == SelectSeq(top, LAMBDA r : ~r.draft /\ ~r.prerelease)
  IN  [i \in 1..Len(kept) |->
         str_replace(str_replace(kept[i].tag_name, <<"n", "8", "n", "@">>, <<>>), <<"v">>, <<>>)]

\* Variant: a cache that is never taken as fresh
cacheNeverFresh(expires, now) == FALSE

\* if _cache["expires"] and now < _cache["expires"]
cacheFresh(expires, now) == expires # <<>> /\ now < expires[1]

\* Variant: a fallback that answers the empty list
fallbackEmpty(cache) == <<>>

\* Fallback: return cached even if expired, or empty
fallback(cache) == cache.versions

\* get_available_versions, answered by the feed with 200 and a list of
\* releases, with another status, or not at all (exception, timeout)
get_available_versions(outcomes) ==
  /\ \E response \in outcomes :
       LET now == feed.now
           call == [NoCall EXCEPT !.at = now, !.cached = feed.versions,
                                  !.fetchedAt = feed.fetchedAt]
           asked == [feed EXCEPT !.lastRequest = <<now>>,
                                 !.burst = @ \/ (feed.lastRequest # <<>>
                                                 /\ now - feed.lastRequest[1] < Ttl),
                                 !.calls = 1]
       IN  IF cacheFresh(feed.expires, now)
           THEN feed' = [feed EXCEPT !.calls = 1,
                                     !.call = [call EXCEPT !.versions = feed.versions]]
           ELSE IF response.status = "200"
           THEN LET versions == extractVersions(response.releases)
                IN  feed' = [asked EXCEPT !.versions = versions,
                                          !.expires = <<now + Ttl>>,
                                          !.fetchedAt = <<now>>,
                                          !.fetched = versions,
                                          !.call = [call EXCEPT !.sent = TRUE,
                                                                !.outcome = "200",
                                                                !.versions = versions]]
           ELSE feed' = [asked EXCEPT !.call = [call EXCEPT !.sent = TRUE,
                                                            !.outcome = response.status,
                                                            !.versions = fallback(feed)]]
  /\ UNCHANGED <<lifeVars, dataVars, ui, compose, pod>>

\* A minute passes
feedTick ==
  /\ feed.now < MaxNow
  /\ feed' = [feed EXCEPT !.now = @ + 1]
  /\ UNCHANGED <<lifeVars, dataVars, ui, compose, pod>>

(***************************************************************************)
(* The temporary pod of the listing                                        *)
(***************************************************************************)
NoPod == "none"

\* list-snapshots.sh in its first form, where list_files runs `ls -1` in a
\* temporary pod named tmp-list: the directories the mode lists, one after the
\* other
listWithPod(s, modes) ==
  /\ snap[s].pc = "idle"
  /\ \E MODE \in modes :
       snap' = [snap EXCEPT ![s] =
                  [@ EXCEPT !.op = "list", !.MODE = MODE, !.pc = "delete", !.io = TRUE,
                            !.todo = IF MODE = "--named-only" THEN <<Snapshots>>
                                     ELSE IF MODE = "--auto-only" THEN <<Backups>>
                                     ELSE <<Snapshots, Backups>>]]
  /\ UNCHANGED <<lifeVars, files, jobs, clock, dbUp, ui, compose, feed, pod>>

\* The listing of one directory is over: the next one, or the end of the script
Listed(q, lines) ==
  LET out == IF Head(q.todo) = Snapshots
             THEN [q.out EXCEPT !.named = grepSql(lines)]
             ELSE [q.out EXCEPT !.auto = grepAuto(lines)]
  IN  [q EXCEPT !.out = out, !.todo = Tail(q.todo),
                !.pc = IF Len(q.todo) > 1 THEN "delete" ELSE "done",
                !.result = IF Len(q.todo) > 1 THEN @ ELSE "Success"]

\* kubectl delete pod tmp-list --ignore-not-found=true: whatever pod has that
\* name is deleted
podDelete(s) ==
  /\ snap[s].pc = "delete"
  /\ pod' = NoPod
  /\ snap' = [snap EXCEPT ![s].pc = "run"]
  /\ UNCHANGED <<lifeVars, files, jobs, clock, dbUp, ui, compose, feed>>

\* kubectl run tmp-list --rm -i ...: the pod is created, unless a pod of that
\* name exists; then kubectl prints an error, which the greps drop
podRun(s) ==
  /\ snap[s].pc = "run"
  /\ IF pod = NoPod
     THEN /\ pod' = s
          /\ snap' = [snap EXCEPT ![s].pc = "attached"]
     ELSE /\ pod' = pod
          /\ snap' = [snap EXCEPT ![s] = Listed(@, {})]
  /\ UNCHANGED <<lifeVars, files, jobs, clock, dbUp, ui, compose, feed>>

\* The pod runs ls -1 "$path", kubectl prints its output and deletes the pod
\* (--rm); nothing is printed for a pod that was deleted in between
podOutput(s) ==
  /\ snap[s].pc = "attached"
  /\ IF pod = s
     THEN /\ pod' = NoPod
          /\ snap' = [snap EXCEPT ![s] = Listed(@, list_files(Head(@.todo)))]
     ELSE /\ pod' = pod
          /\ snap' = [snap EXCEPT ![s] = Listed(@, {})]
  /\ UNCHANGED <<lifeVars, files, jobs, clock, dbUp, ui, compose, feed>>

AuxIdle == feed = NoFeed /\ pod = NoPod

PageIdle == ui = NoUi /\ compose = NoCompose /\ AuxIdle

(***************************************************************************)
(* Specification of the lifecycle: two create requests and a remove        *)
(* request, interleaved step by step, on a cluster that starts empty       *)
(***************************************************************************)
DeployVersions == {VersionString(<<2, 1, 0>>)}
DeployNames == {NoName, <<"a", "0">>, <<"A">>}
DeployInputs ==
  {[version |-> v, name |-> n, isolatedDb |-> i] :
     v \in DeployVersions, n \in DeployNames, i \in BOOLEAN}
RemoveTargets ==
  {deriveIdentity(in.version, in.name).namespace : in \in {i \in DeployInputs : validateName(i.name)}}

Init ==
  /\ form = [r \in Requests |-> NoForm]
  /\ pc = [r \in Requests |-> "idle"]
  /\ result = [r \in Requests |-> "none"]
  /\ identity = [r \in Requests |-> NoIdentity]
  /\ log = [r \in Requests |-> NoLog]
  /\ snapshots = {}
  /\ rm = NoRemove
  /\ rmlog = NoRemoveLog
  /\ rmResult = "none"
  /\ listing = NoListing
  /\ StoreIdle
  /\ PageIdle
  /\ cluster = <<>>
  /\ releases = {}

Next ==
  \/ \E r \in Requests :
       \/ handleDeploy(r, DeployInputs)
       \/ checkNamespace(r)
       \/ helmInstall(r)
       \/ preInstallHook(r)
       \/ createResources(r)
  \/ removeVersion(RemoveTargets)
  \/ namespaceGone
  \/ waitCheck
  \/ waitPoll
  \/ waitTimeout
  \/ removeRespond

Spec == Init /\ [][Next]_vars

(***************************************************************************)
(* Specification of a single resolution, over every enumerated input       *)
(***************************************************************************)
Chars(S, n) == UNION {[1..k -> S] : k \in 0..n}

\* Every version triple within the bounds, and the README's 1.85.0
Triples == ((0..MaxMajor) \X (0..MaxMinor) \X (0..MaxPatch)) \cup {<<1, 85, 0>>}

\* Names over one letter, one digit, the hyphen, an upper-case letter and the
\* underscore, of every length up to MaxNameLen; and names around the 63 limit
NameAlphabet == {"a", "0", "-", "A", "_"}
LongNames == {Rep("a", 62), Rep("a", 63), Rep("a", 64),
              Rep("a", 62) \o <<"-">>, <<"-">> \o Rep("a", 62),
              Rep("a", 31) \o <<"-">> \o Rep("0", 31)}
Names == Chars(NameAlphabet, MaxNameLen) \cup LongNames

ResolveInputs ==
  {[version |-> VersionString(v), name |-> NoName, isolatedDb |-> FALSE] : v \in Triples}
  \cup {[version |-> VersionString(<<1, 85, 0>>), name |-> n, isolatedDb |-> FALSE] :
          n \in Names}
  \cup {[version |-> <<>>, name |-> NoName, isolatedDb |-> FALSE]}

\* An earlier deployment named "a0" and one of version 1.1.0 are running.
EarlierCluster ==
  [n \in {<<"a", "0">>, autoNamespace(VersionString(<<1, 1, 0>>))} |->
     [phase |-> "Active", label |-> VersionString(<<1, 1, 0>>), by |-> "earlier"]]

InitResolve ==
  /\ form = [r \in Requests |-> NoForm]
  /\ pc = [r \in Requests |-> "idle"]
  /\ result = [r \in Requests |-> "none"]
  /\ identity = [r \in Requests |-> NoIdentity]
  /\ log = [r \in Requests |-> NoLog]
  /\ snapshots = {}
  /\ rm = NoRemove
  /\ rmlog = NoRemoveLog
  /\ rmResult = "none"
  /\ listing = NoListing
  /\ StoreIdle
  /\ PageIdle
  /\ cluster = EarlierCluster
  /\ releases = {[namespace |-> n, releaseName |-> n, by |-> "earlier"] :
                   n \in DOMAIN EarlierCluster}

\* A second resolution, of a few of the same names and versions
RepeatInputs ==
  {in \in ResolveInputs :
     \/ in.name \in {<<"a">>, <<"a", "0">>, <<"a", "-", "0">>, <<"A">>, Rep("a", 63)}
     \/ in.name = NoName /\ in.version \in {VersionString(<<1, 85, 0>>), VersionString(<<2, 1, 0>>)}}

NextResolve ==
  \/ handleDeploy("r1", ResolveInputs)
  \/ checkNamespace("r1")
  \/ handleDeploy("r2", RepeatInputs)
  \/ checkNamespace("r2")

SpecResolve == InitResolve /\ [][NextResolve]_vars

(***************************************************************************)
(* Specification of one remove request on a cluster with two deployments;  *)
(* the scripts and the endpoint keep running, the platform may or may not  *)
(* finish the teardown                                                     *)
(***************************************************************************)
WaitTargets == DOMAIN EarlierCluster \cup {<<"z">>}

InitWait ==
  /\ form = [r \in Requests |-> NoForm]
  /\ pc = [r \in Requests |-> "idle"]
  /\ result = [r \in Requests |-> "none"]
  /\ identity = [r \in Requests |-> NoIdentity]
  /\ log = [r \in Requests |-> NoLog]
  /\ snapshots = {}
  /\ rm = NoRemove
  /\ rmlog = NoRemoveLog
  /\ rmResult = "none"
  /\ listing = NoListing
  /\ StoreIdle
  /\ PageIdle
  /\ cluster = EarlierCluster
  /\ releases = {[namespace |-> n, releaseName |-> n, by |-> "earlier"] :
                   n \in DOMAIN EarlierCluster}

NextWait ==
  \/ removeVersion(WaitTargets)
  \/ namespaceGone
  \/ waitCheck
  \/ waitPoll
  \/ waitTimeout
  \/ removeRespond

SpecWait ==
  /\ InitWait /\ [][NextWait]_vars
  /\ WF_vars(waitCheck) /\ WF_vars(waitPoll) /\ WF_vars(waitTimeout)
  /\ WF_vars(removeRespond)

(***************************************************************************)
(* Specification of the version extraction, over clusters of one           *)
(* deployment: auto-named or custom-named, labelled or not                 *)
(***************************************************************************)
Test == <<"t", "e", "s", "t">>

\* Custom names: the valid short ones, and ones that resemble the auto form
ListedCustomNames ==
  {n \in Chars(NameAlphabet, MaxNameLen) : n # <<>> /\ validateName(n)}
  \cup {autoNamespace(VersionString(<<1, 2, 3>>)) \o <<"-">> \o Test,
        <<"x", "-">> \o autoNamespace(VersionString(<<1, 2, 3>>)),
        N8nV \o <<"1", "-", "2">>,
        N8nV \o <<"1", "-", "2", "-", "x">>,
        <<"n", "8", "n", "-", "1", "-", "2", "-", "3">>}

\* A deployment carries the label of the version it was created with, none
\* (created before the chart set the label), or one set by hand since.
ListedClusters ==
  UNION {{[n \in {autoNamespace(VersionString(v))} |->
             [phase |-> "Active", label |-> l, by |-> "earlier"]] :
               l \in {<<>>, VersionString(v), VersionString(<<9, 9, 9>>)}} : v \in Triples}
  \cup {[n \in {name} |-> [phase |-> "Active", label |-> l, by |-> "earlier"]] :
          name \in ListedCustomNames,
          l \in {<<>>, VersionString(<<1, 85, 0>>), VersionString(<<2, 1, 0>>)}}

InitVersionOf ==
  /\ form = [r \in Requests |-> NoForm]
  /\ pc = [r \in Requests |-> "idle"]
  /\ result = [r \in Requests |-> "none"]
  /\ identity = [r \in Requests |-> NoIdentity]
  /\ log = [r \in Requests |-> NoLog]
  /\ snapshots = {}
  /\ rm = NoRemove
  /\ rmlog = NoRemoveLog
  /\ rmResult = "none"
  /\ listing = NoListing
  /\ StoreIdle
  /\ PageIdle
  /\ cluster \in ListedClusters
  /\ releases = {[namespace |-> n, releaseName |-> n, by |-> "earlier"] : n \in DOMAIN cluster}

NextVersionOf == getDeploymentInfo

SpecVersionOf == InitVersionOf /\ [][NextVersionOf]_vars

(***************************************************************************)
(* Specification of the snapshot store: two snapshot requests, the Jobs     *)
(* they start, the clock and the database                                  *)
(***************************************************************************)
DeployIdle ==
  /\ form = [r \in Requests |-> NoForm]
  /\ pc = [r \in Requests |-> "idle"]
  /\ result = [r \in Requests |-> "none"]
  /\ identity = [r \in Requests |-> NoIdentity]
  /\ log = [r \in Requests |-> NoLog]
  /\ snapshots = {}
  /\ rm = NoRemove
  /\ rmlog = NoRemoveLog
  /\ rmResult = "none"
  /\ listing = NoListing

Acme == <<"a", "c", "m", "e">>
SnapNames == {Acme, <<"A", "_", "1">>, <<"a", ".", "b">>, <<>>}
SnapSources == {Shared, <<"a", "0">>, <<"z">>}

\* Every Job name the requests can produce
JobNames ==
  {JobName([NoSnap EXCEPT !.op = "automatic", !.TIMESTAMP = Timestamp(c)]) : c \in 0..MaxClock}
  \cup {JobName([NoSnap EXCEPT !.op = "named", !.NAME = n, !.TIMESTAMP = Timestamp(c)]) :
          n \in SnapNames, c \in 0..MaxClock}

InitStore ==
  /\ DeployIdle
  /\ PageIdle
  /\ cluster = EarlierCluster
  /\ releases = {[namespace |-> n, releaseName |-> n, by |-> "earlier"] :
                   n \in DOMAIN EarlierCluster}
  /\ files = <<>>
  /\ jobs = <<>>
  /\ clock = 0
  /\ dbUp \in BOOLEAN
  /\ snap = [s \in SnapRequests |-> NoSnap]

NextStore ==
  \/ \E s \in SnapRequests :
       \/ createSnapshot(s)
       \/ createNamedSnapshot(s, SnapNames, SnapSources)
       \/ kubectlApply(s)
       \/ snapRespond(s)
       \/ handleUpload(s, SnapNames)
       \/ uploadStore(s)
  \/ \E j \in JobNames :
       \/ jobDumpStart(j)
       \/ jobDumpEnd(j)
       \/ jobFinish(j)
  \/ tick
  \/ dbChange

SpecStore == InitStore /\ [][NextStore]_vars

(***************************************************************************)
(* Specification of the listing, over stores holding any of five files     *)
(***************************************************************************)
ListModes == {"all", "--named-only", "--auto-only"}

PreV185 == <<"-">> \o PreV \o VersionString(<<1, 85, 0>>) \o DotSql

\* Files the creating operations produce: a named snapshot acme with its
\* metadata file, a named snapshot whose name is that of a timestamped file,
\* a manual and a pre-deploy snapshot
StoredFiles ==
  {<<Snapshots, Acme \o DotSql>>,
   <<Snapshots, Acme \o DotSql \o DotMeta>>,
   <<Snapshots, N8nDash \o Timestamp(0) \o ManualSql>>,
   <<Backups, N8nDash \o Timestamp(0) \o ManualSql>>,
   <<Backups, N8nDash \o Timestamp(1) \o PreV185>>}

InitList ==
  /\ DeployIdle
  /\ PageIdle
  /\ cluster = <<>>
  /\ releases = {}
  /\ \E S \in SUBSET StoredFiles :
       files = [f \in S |-> [by |-> "earlier", body |-> IF EndsWith(f[2], DotMeta)
                                                       THEN "meta" ELSE "dump",
                             name |-> <<>>, source |-> Shared]]
  /\ jobs = <<>>
  /\ clock = 0
  /\ dbUp = TRUE
  /\ snap = [s \in SnapRequests |-> NoSnap]

NextList == \E s \in SnapRequests : listSnapshots(s, ListModes)

SpecList == InitList /\ [][NextList]_vars

(***************************************************************************)
(* Specification of the pages: the drawer of a deployment that exists or   *)
(* of one removed since the page was loaded, over a store of two named     *)
(* snapshots                                                               *)
(***************************************************************************)
DrawerNamespaces == {<<"a", "0">>, <<"z", "9">>}

StoredAtLoad ==
  {<<Snapshots, Acme \o DotSql>>,
   <<Snapshots, Acme \o DotSql \o DotMeta>>,
   <<Snapshots, <<"b">> \o DotSql>>,
   <<Snapshots, <<"b">> \o DotSql \o DotMeta>>}

InitUI ==
  /\ DeployIdle
  /\ cluster = EarlierCluster
  /\ releases = {}
  /\ files = [f \in StoredAtLoad |-> [by |-> "earlier", body |-> IF EndsWith(f[2], DotMeta)
                                                                  THEN "meta" ELSE "dump",
                                      name |-> <<>>, source |-> Shared]]
  /\ jobs = <<>>
  /\ clock = 0
  /\ dbUp = TRUE
  /\ snap = [s \in SnapRequests |-> NoSnap]
  /\ \E n \in DrawerNamespaces : ui = [NoUi EXCEPT !.namespace = n]
  /\ compose = NoCompose
  /\ AuxIdle

NextUI ==
  \/ setDeleteVersion(ListedVersions)
  \/ removeMutate
  \/ removeSettled
  \/ setRestoreSnapshot(ListedSnapshots)
  \/ restoreMutate
  \/ restoreSettled
  \/ onValueChange(ListedSnapshots)
  \/ handleRestore
  \/ restoreToDeploymentRun
  \/ restoreToDeploymentSettled
  \/ handleDelete(ListedNamed)
  \/ deleteSettled

SpecUI == InitUI /\ [][NextUI]_vars

(***************************************************************************)
(* Specification of the custom values: one deploy request with any of the  *)
(* structured fields and any of the raw documents                          *)
(***************************************************************************)
EnvVarsInputs == {<<>>, <<[key |-> "A", value |-> "1"]>>,
                  <<[key |-> "A", value |-> "1"], [key |-> "A", value |-> "x"]>>}
ResourcesInputs ==
  {<<>>} \cup {<<[cpu |-> cpu, memory |-> memory]>> :
                 cpu \in {<<>>, <<"500m">>}, memory \in {<<>>, <<"">>, <<"1Gi">>}}
ReplicasInputs == {<<>>, <<0>>, <<2>>}
RawInputs ==
  {<<>>,
   <<"{", "resources", ":", "{", "cpu", ":", "250m", "}", "}">>,
   <<"{", "resources", ":", "{", "main", ":", "{", "limits", ":",
     "{", "cpu", ":", "250m", "}", "}", "}", "}">>,
   <<"{", "resources", ":", "x", "}">>,
   <<"{", "extraEnv", ":", "{", "A", ":", "2", ",", "B", ":", "b", "}", ",",
     "image", ":", "{", "tag", ":", "1", "}", "}">>,
   <<"{", "replicas", ":", "{", "}", ",", "extraEnv", ":", "null", "}">>,
   <<"[", "a", ",", "b", "]">>,
   <<"hello">>,
   <<"~">>,
   <<"{", "resources", ":", "{", "cpu", ":", "250m", "}">>,
   <<"{", "resources", "cpu", "}", "}">>}

InitCompose ==
  /\ DeployIdle
  /\ cluster = <<>>
  /\ releases = {}
  /\ StoreIdle
  /\ ui = NoUi
  /\ AuxIdle
  /\ \E envVars \in EnvVarsInputs, resources \in ResourcesInputs,
        workerReplicas \in ReplicasInputs, rawYaml \in RawInputs :
       compose = [NoCompose EXCEPT !.pc = "request",
                                   !.custom = [envVars |-> envVars, resources |-> resources,
                                               workerReplicas |-> workerReplicas,
                                               rawYaml |-> rawYaml]]

NextCompose == deploy_version_values

SpecCompose == InitCompose /\ [][NextCompose]_vars

(***************************************************************************)
(* Specification of the release feed cache: calls at any minute, answered  *)
(* by the feed with releases, with an error status, or not at all          *)
(***************************************************************************)
Release(tag, draft, prerelease) == [tag_name |-> tag, draft |-> draft, prerelease |-> prerelease]

FeedOutcomes ==
  {[status |-> "200",
    releases |-> <<Release(<<"n", "8", "n", "@">> \o VersionString(<<2, 1, 0>>), FALSE, FALSE),
                   Release(<<"n", "8", "n", "@">> \o VersionString(<<2, 2, 0>>), FALSE, TRUE)>>],
   [status |-> "200",
    releases |-> <<Release(<<"v">> \o VersionString(<<1, 85, 0>>), FALSE, FALSE)>>],
   [status |-> "403", releases |-> <<>>],
   [status |-> "exception", releases |-> <<>>]}

InitFeed ==
  /\ DeployIdle
  /\ cluster = <<>>
  /\ releases = {}
  /\ StoreIdle
  /\ ui = NoUi
  /\ compose = NoCompose
  /\ feed = NoFeed
  /\ pod = NoPod

NextFeed ==
  \/ get_available_versions(FeedOutcomes)
  \/ feedTick

SpecFeed == InitFeed /\ [][NextFeed]_vars

(***************************************************************************)
(* Specification of the listing through the temporary pod: two listings    *)
(* at once, over stores holding any of five files                          *)
(***************************************************************************)
InitPodList == InitList

NextPodList ==
  \E s \in SnapRequests :
    \/ listWithPod(s, ListModes)
    \/ podDelete(s)
    \/ podRun(s)
    \/ podOutput(s)

SpecPodList == InitPodList /\ [][NextPodList]_vars

(***************************************************************************)
(* Properties of identity resolution (checked under SpecResolve)           *)
(***************************************************************************)
Hyphen == <<"-">>
Resolved(r) == log[r].checked          \* deploy-version.sh derived r's identity

\* C7: for a version triple major.minor.patch and no custom name, the derived
\* namespace and release name are "n8n-v{major}-{minor}-{patch}" and the port is
\* 30000 + major*100 + minor; 1.85.0 gives n8n-v1-85-0 and 30185, 2.1.0 gives
\* n8n-v2-1-0 and 30201.
C7_AutoIdentity ==
  \A r \in Requests : \A v \in Triples :
    (Resolved(r) /\ form[r].name = NoName /\ form[r].version = VersionString(v))
    => /\ identity[r].namespace =
            N8nV \o Dec(v[1]) \o Hyphen \o Dec(v[2]) \o Hyphen \o Dec(v[3])
       /\ identity[r].releaseName = identity[r].namespace
       /\ identity[r].port = 30000 + v[1] * 100 + v[2]
       /\ (v = <<1, 85, 0>> =>
             /\ identity[r].namespace = <<"n","8","n","-","v","1","-","8","5","-","0">>
             /\ identity[r].port = 30185)
       /\ (v = <<2, 1, 0>> =>
             /\ identity[r].namespace = <<"n","8","n","-","v","2","-","1","-","0">>
             /\ identity[r].port = 30201)

C7_Witness ==
  /\ Resolved("r1")
  /\ form["r1"].name = NoName
  /\ form["r1"].version = <<"1", ".", "8", "5", ".", "0">>
  /\ identity["r1"].port = 30185

\* The pattern ^[a-z0-9]([a-z0-9-]{0,61}[a-z0-9])?$
MatchesPattern(s) ==
  /\ Len(s) >= 1
  /\ s[1] \in LowerAlnum
  /\ \/ Len(s) = 1
     \/ /\ Len(s) >= 2
        /\ Len(s) - 2 <= 61
        /\ \A i \in 2..(Len(s) - 1) : s[i] \in LowerAlnumHyphen
        /\ s[Len(s)] \in LowerAlnum

C9_HashPort ==
  \A r \in Requests :
    (Resolved(r) /\ form[r].name # NoName)
    => /\ identity[r].namespace = form[r].name
       /\ identity[r].releaseName = form[r].name
       /\ identity[r].port = 30000 + Mod(cksum(form[r].name), 1000)
       /\ identity[r].port \in 30000..30999
       /\ (form[r].name = <<"a">> => identity[r].port = 30766)
       /\ \A q \in Requests :
            (Resolved(q) /\ form[q].name = form[r].name) => identity[q] = identity[r]

C9_Witness ==
  /\ Resolved("r1") /\ Resolved("r2")
  /\ form["r1"].name = Rep("a", 63)
  /\ form["r2"].name = Rep("a", 63)
  /\ identity["r1"].port = identity["r2"].port

(***************************************************************************)
(* Properties of the lifecycle (checked under Spec)                        *)
(***************************************************************************)
Rejected(r) == result[r] \in {"InvalidInput", "Conflict"}

C2_NoEffects ==
  \A r \in Requests :
    Rejected(r)
    => /\ ~log[r].installIssued
       /\ ~log[r].snapshotTried
       /\ \A f \in snapshots : f.by # r
       /\ \A d \in releases : d.by # r
       /\ \A n \in DOMAIN cluster : cluster[n].by # r

C2_RejectingStep ==
  \A r \in Requests :
    (~Rejected(r) /\ Rejected(r)')
    => (cluster' = cluster /\ releases' = releases /\ snapshots' = snapshots)

C2_FailFast == [](C2_NoEffects) /\ [][C2_RejectingStep]_vars

C2_Witness ==
  /\ result["r1"] = "Success"
  /\ result["r2"] = "Conflict"
  /\ ~form["r2"].isolatedDb
  /\ identity["r2"].namespace = identity["r1"].namespace

C4_Bounded ==
  /\ rm.ELAPSED \in 0..MAX_WAIT
  /\ rmlog.polls * PollInterval <= MAX_WAIT
  /\ rm.error = "StillTerminating"
     => /\ rm.exit = 1
        /\ rm.ELAPSED = MAX_WAIT
        /\ rmResult \in {"none", "StillTerminating"}
  /\ (rm.pc \in {"exited", "done"} /\ ~rmlog.sawAbsent) => rm.exit # 0

\* C4: the wait for deletion always terminates.  It polls every 2 s up to 120 s,
\* reports StillTerminating (never success) when the bound is reached, and the
\* remove request is always answered.
C4_WaitTerminates == [](C4_Bounded) /\ ((rm.pc = "wait") ~> (rm.pc = "done"))

C4_Witness ==
  /\ rmResult = "StillTerminating"
  /\ rm.ELAPSED = MAX_WAIT
  /\ rmlog.polls * PollInterval = MAX_WAIT
  /\ Exists(rm.target)

(***************************************************************************)
(* Properties of the version extraction (checked under SpecVersionOf)      *)
(***************************************************************************)
Custom == <<"c", "u", "s", "t", "o", "m">>
AllDigits(s) == s # <<>> /\ \A i \in 1..Len(s) : s[i] \in DigitChars

\* The namespace is exactly n8n-v{major}-{minor}-{patch}
AutoForm(ns) ==
  /\ Len(ns) > Len(N8nV)
  /\ SubSeq(ns, 1, Len(N8nV)) = N8nV
  /\ LET parts == split(SubSeq(ns, Len(N8nV) + 1, Len(ns)), "-")
     IN  Len(parts) = 3 /\ \A k \in 1..3 : AllDigits(parts[k])

\* C10: the extracted version is parsed from the name only for a namespace of
\* the auto-generated form; for any other namespace it is the version label of
\* the namespace, and the marker "custom" when there is no label to read.
C10_VersionOf ==
  listing # NoListing =>
    IF AutoForm(listing.namespace)
    THEN listing.version =
           replace(SubSeq(listing.namespace, Len(N8nV) + 1, Len(listing.namespace)), "-", ".")
    ELSE IF ~listing.raised /\ listing.stdout # <<>>
    THEN listing.version = listing.stdout
    ELSE listing.version = Custom

(***************************************************************************)
(* Properties of the snapshot store (checked under SpecStore)              *)
(***************************************************************************)
\* The label was in the catalog when the request was made: its dump and its
\* metadata file were there, complete
Present(q) ==
  /\ q.op = "named"
  /\ BackupFile(q) \in DOMAIN q.before
  /\ MetaFile(BackupFile(q)) \in DOMAIN q.before
  /\ q.before[BackupFile(q)].body = "dump"

\* C11: a named snapshot requested with a label that is already in the catalog
\* fails before the dump begins: no Job is started for it and the existing
\* {label}.sql and its metadata file stay exactly as they were.
C11_DuplicateLabel ==
  \A s \in SnapRequests :
    Present(snap[s])
    => /\ ~snap[s].createdJob
       /\ snap[s].result # "Success"
       /\ \A f \in DOMAIN snap[s].before :
            f \in DOMAIN files /\ files[f] = snap[s].before[f]

\* The pattern ^[A-Za-z0-9_-]+$
LabelPattern(label) ==
  /\ Len(label) >= 1
  /\ \A i \in 1..Len(label) :
       label[i] \in Range(Lowers) \cup Range(Uppers) \cup Range(Digits) \cup {"_", "-"}

\* C12: a named snapshot, a snapshot of a deployment or an upload whose label
\* does not match ^[A-Za-z0-9_-]+$ goes no further than the validation: no
\* cluster query, no Job, no file, no upload request, and it is not answered
\* as a success.
C12_LabelFirst ==
  \A s \in SnapRequests :
    (snap[s].op \in {"named", "upload"} /\ ~LabelPattern(snap[s].NAME))
    => /\ ~snap[s].io
       /\ ~snap[s].createdJob
       /\ snap[s].pc \in {"exited", "done"}
       /\ snap[s].result \in {"Usage", "InvalidName", "Disabled"}
       /\ \A f \in DOMAIN files : files[f].by # s

C12_Witness ==
  /\ snap["s1"].op = "named" /\ snap["s1"].NAME = <<"a", ".", "b">>
  /\ snap["s1"].SOURCE = <<"z">>
  /\ snap["s1"].pc = "done" /\ snap["s1"].result = "InvalidName"
  /\ snap["s2"].op = "upload" /\ snap["s2"].NAME = <<"a", ".", "b">>
  /\ snap["s2"].pc = "done"

\* C13: an automatic snapshot requested while the shared database is
\* unreachable is answered as a failure (SourceUnavailable), never as a
\* success: no success is reported for a dump that did not happen.
C13_FailsLoudly ==
  \A s \in SnapRequests :
    (snap[s].op = "automatic" /\ snap[s].pc = "done" /\ ~snap[s].dbSeen)
    => /\ snap[s].result = "SourceUnavailable"
       /\ snap[s].result # "Success"

\* C14: two automatic snapshots requested in rapid succession, even within one
\* second, do not conflict: each request creates a Job of its own and a snapshot
\* file of its own.
C14_RapidCreates ==
  \A s \in SnapRequests : \A t \in SnapRequests \ {s} :
    (/\ snap[s].op = "automatic" /\ snap[s].pc = "done"
     /\ snap[t].op = "automatic" /\ snap[t].pc = "done")
    => /\ snap[s].createdJob /\ snap[t].createdJob
       /\ JobName(snap[s]) # JobName(snap[t])
       /\ BackupFile(snap[s]) # BackupFile(snap[t])

\* C16: a named snapshot is never visible in the listing without its metadata
\* file {name, created, source, type = "named"}, also while it is being created.
C16_SidecarAlways ==
  \A n \in grepSql(list_files(Snapshots)) :
    LET meta == <<Snapshots, n \o DotMeta>>
    IN  /\ meta \in DOMAIN files
        /\ files[meta].body = "meta"
        /\ files[meta].name \o DotSql = n

(***************************************************************************)
(* Properties of the listing (checked under SpecList)                      *)
(***************************************************************************)
\* n8n-{yyyyMMdd}-{HHmmss}-{suffix}.sql
AutoShape(n) ==
  /\ StartsWith(n, N8nDash)
  /\ EndsWith(n, DotSql)
  /\ DigitRun(n, 5) = 8
  /\ Len(n) >= 13 /\ n[13] = "-"
  /\ DigitRun(n, 14) = 6
  /\ Len(n) >= 20 /\ n[20] = "-"
  /\ Len(n) > 20 + Len(DotSql)

StoredSql == {f \in DOMAIN files : EndsWith(f[2], DotSql)}

\* C15: the listing returns every snapshot exactly once, classified by the
\* shape of its file name alone ({label}.sql named, n8n-{date}-{time}-{suffix}.sql
\* automatic), never a .meta file; --named-only and --auto-only return the two
\* disjoint parts; acme.sql, acme.sql.meta and two timestamped files give one
\* named and two automatic entries.
C15_ListByShape ==
  \A s \in SnapRequests :
    (snap[s].op = "list" /\ snap[s].pc = "done")
    => LET out == snap[s].out
           named == {f[2] : f \in {g \in StoredSql : ~AutoShape(g[2])}}
           auto == {f[2] : f \in {g \in StoredSql : AutoShape(g[2])}}
       IN  /\ out.named = (IF snap[s].MODE = "--auto-only" THEN {} ELSE named)
           /\ out.auto = (IF snap[s].MODE = "--named-only" THEN {} ELSE auto)
           /\ out.named \cap out.auto = {}
           /\ \A f \in StoredSql : \A g \in StoredSql : f[2] = g[2] => f = g
           /\ \A n \in out.named \cup out.auto : ~EndsWith(n, DotMeta)

(***************************************************************************)
(* Properties of the pages (checked under SpecUI)                          *)
(***************************************************************************)
\* C17: restoring a snapshot into a deployment succeeds only if the namespace
\* of the deployment exists; otherwise the answer is TargetNotFound and neither
\* the snapshot store nor a database has changed.
C17_TargetMustExist ==
  [][(ui.answer = "none" /\ ui'.answer # "none")
     => /\ ui'.answer = "Success" => ui.namespace \in DOMAIN cluster
        /\ ui.namespace \notin DOMAIN cluster
           => /\ ui'.answer = "TargetNotFound"
              /\ files' = files
              /\ ui'.restored = ui.restored]_vars

C17_Witness ==
  /\ ui.namespace \notin DOMAIN cluster
  /\ ui.answer = "TargetNotFound"
  /\ ui.selectedSnapshot = Acme \o DotSql

\* C18: every call of a destructive operation (restore to the shared database,
\* restore into a deployment, deletion of a snapshot, deletion of a deployment)
\* leaves the page while the warning of that operation is shown.
C18_WarnedFirst == \A c \in ui.calls : c.warned

(***************************************************************************)
(* Properties of the custom values (checked under SpecCompose)             *)
(***************************************************************************)
Absent == [tag |-> "absent"]

RECURSIVE Get(_, _)
\* The node of mapping m at path p
Get(m, p) ==
  IF p[1] \notin DOMAIN m THEN Absent
  ELSE IF Len(p) = 1 THEN m[p[1]]
  ELSE IF isDict(m[p[1]]) THEN Get(m[p[1]].m, Tail(p))
  ELSE Absent

RECURSIVE LeafPaths(_)
\* The paths of mapping m to the nodes that are not mappings
LeafPaths(m) ==
  UNION {IF isDict(m[k]) THEN {<<k>> \o p : p \in LeafPaths(m[k].m)} ELSE {<<k>>} :
           k \in DOMAIN m}

\* The raw mapping has a node at the path, or a node that is not a mapping above it
Overridden(raw, p) ==
  \E n \in 1..Len(p) :
    LET x == Get(raw, SubSeq(p, 1, n))
    IN  x # Absent /\ (n = Len(p) \/ ~isDict(x))

StructuredOnly == structured_values(compose.custom)
RawDocument == safe_load(compose.custom.rawYaml)
RawIsMapping == compose.custom.rawYaml # <<>> /\ RawDocument.ok /\ isDict(RawDocument.val)

\* C19: a raw override that is a mapping is merged over the mapping of the
\* structured fields, the raw value winning key by key at every depth: every
\* leaf of the raw override is in the result with the raw value, and every leaf
\* of the structured fields the raw override does not reach keeps its value;
\* with the structured cpu "500m" and the raw override {resources: {cpu: "250m"}}
\* the result has resources.cpu = "250m".
C19_RawOverStructured ==
  (compose.pc = "run" /\ RawIsMapping)
  => /\ \A p \in LeafPaths(RawDocument.val.m) :
          Get(compose.values, p) = Get(RawDocument.val.m, p)
     /\ \A p \in LeafPaths(StructuredOnly) :
          ~Overridden(RawDocument.val.m, p)
          => Get(compose.values, p) = Get(StructuredOnly, p)
     /\ (/\ compose.custom.resources # <<>>
         /\ compose.custom.resources[1].cpu = <<"500m">>
         /\ RawDocument.val.m = Entry("resources", Map(Entry("cpu", Str("250m")))))
        => Get(compose.values, <<"resources", "cpu">>) = Str("250m")

C19_Witness ==
  /\ compose.pc = "run"
  /\ compose.custom.resources # <<>>
  /\ compose.custom.resources[1].cpu = <<"500m">>
  /\ RawIsMapping
  /\ RawDocument.val.m = Entry("resources", Map(Entry("cpu", Str("250m"))))
  /\ Get(compose.values, <<"resources", "cpu">>) = Str("250m")
  /\ Get(compose.values, <<"resources", "main", "limits", "cpu">>) = Str("500m")

\* C20: a raw override that is not valid, or that is not a mapping, never makes
\* the composition fail: the result is the configuration of the structured
\* fields alone and the deployment command runs.
C20_RawNeverFails ==
  (compose.pc = "run" /\ compose.custom.rawYaml # <<>> /\ ~RawIsMapping)
  => /\ ~compose.raised
     /\ compose.values = StructuredOnly
     /\ compose.cmd

C20_Witness ==
  /\ compose.pc = "run"
  /\ compose.custom.rawYaml # <<>>
  /\ ~RawDocument.ok
  /\ compose.custom.workerReplicas = <<2>>
  /\ compose.values # <<>>
  /\ compose.cmd

(***************************************************************************)
(* Properties of the release feed cache (checked under SpecFeed)           *)
(***************************************************************************)
\* The last call was made less than five minutes after the last fetch that
\* succeeded
CalledFresh ==
  feed.calls > 0 /\ feed.call.fetchedAt # <<>> /\ feed.call.at - feed.call.fetchedAt[1] < Ttl

\* C21: a call made while the cache is fresh, less than five minutes after the
\* last successful fetch, is answered with the cached entries and sends no
\* request to the feed.
C21_FreshNoRequest ==
  CalledFresh => ~feed.call.sent /\ feed.call.versions = feed.call.cached

C21_Witness ==
  /\ CalledFresh
  /\ feed.call.at > feed.call.fetchedAt[1]
  /\ feed.call.versions = <<VersionString(<<2, 1, 0>>)>>

\* C22: a call whose request to the feed fails (exception, timeout, status
\* other than 200) is answered with the list of the last successful fetch,
\* stale or not, and raises no error.
C22_StaleOnFailure ==
  (feed.calls > 0 /\ feed.call.sent /\ feed.call.outcome # "200")
  => /\ feed.call.versions = feed.fetched
     /\ ~feed.call.raised
     /\ feed.versions = feed.call.cached

C22_Witness ==
  /\ feed.calls > 0
  /\ feed.call.sent
  /\ feed.call.outcome = "exception"
  /\ feed.call.fetchedAt # <<>>
  /\ feed.call.at - feed.call.fetchedAt[1] >= Ttl
  /\ feed.call.versions = <<VersionString(<<1, 85, 0>>)>>

\* C23: whatever the calls and the outcomes of the feed, two requests to the
\* feed are at least five minutes apart (at most 12 requests an hour).
C23_OneRequestPerWindow == ~feed.burst

(***************************************************************************)
(* Further properties of identity resolution (checked under SpecResolve)   *)
(***************************************************************************)
\* C24: two deployments of different versions, in different namespaces derived
\* from those versions, are exposed on different ports.
C24_UniquePort ==
  \A r \in Requests : \A q \in Requests :
    (/\ Resolved(r) /\ Resolved(q)
     /\ form[r].name = NoName /\ form[q].name = NoName
     /\ form[r].version # form[q].version
     /\ identity[r].namespace # identity[q].namespace)
    => identity[r].port # identity[q].port

(***************************************************************************)
(* Further properties of the snapshot store (checked under SpecStore)      *)
(***************************************************************************)
\* The file of Job j holds what a failed dump of j has left
DumpFailed(j) ==
  /\ j \in DOMAIN jobs
  /\ jobs[j].file \in DOMAIN files
  /\ files[jobs[j].file].body = "partial"
  /\ files[jobs[j].file].by = j

\* C25: nothing is retried: the dump of a snapshot request is run at most once,
\* a dump that has failed is not started again without a new request.
C25_NoRetry ==
  [][\A j \in JobNames :
       DumpFailed(j) => ~(jobs[j].pc = "waiting" /\ jobs'[j].pc = "dumping")]_vars

\* C26: a dump that fails leaves the store as it was: no partial .sql file of it
\* is in the directories of the catalog.
C26_FailedDumpLeavesNothing ==
  \A n \in grepSql(list_files(Snapshots)) \cup grepAuto(list_files(Backups)) :
    \A dir \in {Snapshots, Backups} :
      <<dir, n>> \in DOMAIN files => files[<<dir, n>>].body # "partial"

(***************************************************************************)
(* Further properties of the version extraction (checked under             *)
(* SpecVersionOf)                                                          *)
(***************************************************************************)
\* C27: the version extracted from the namespace derived for a version triple
\* without a custom name is that version, whatever label the namespace carries.
C27_RoundTrip ==
  \A v \in Triples :
    (listing # NoListing
     /\ listing.namespace = deriveIdentity(VersionString(v), NoName).namespace)
    => listing.version = VersionString(v)

C27_Witness ==
  /\ listing # NoListing
  /\ listing.namespace = deriveIdentity(VersionString(<<2, 11, 1>>), NoName).namespace
  /\ ~listing.raised
  /\ listing.stdout = VersionString(<<9, 9, 9>>)
  /\ listing.version = VersionString(<<2, 11, 1>>)

(***************************************************************************)
(* Properties of the listing through the temporary pod (checked under      *)
(* SpecPodList)                                                            *)
(***************************************************************************)
\* C28: two listings that run at once each return the complete listing of the
\* store: neither disturbs the pod the other reads the volume with.
C28_ConcurrentListings ==
  \A s \in SnapRequests :
    (snap[s].op = "list" /\ snap[s].pc = "done")
    => /\ snap[s].out.named = (IF snap[s].MODE = "--auto-only" THEN {}
                               ELSE grepSql(list_files(Snapshots)))
       /\ snap[s].out.auto = (IF snap[s].MODE = "--named-only" THEN {}
                              ELSE grepAuto(list_files(Backups)))

(***************************************************************************)
(* Further properties of the pages (checked under SpecUI)                  *)
(***************************************************************************)
InFlight(filename) == {i \in 1..Len(ui.deletes) : ui.deletes[i] = filename}

\* C29: while a delete request for a snapshot is in flight the buttons of that
\* snapshot are disabled (deletingSnapshot is that snapshot) until that request
\* settles, so that at most one delete request per file is in flight.
C29_OneDeletePerFile ==
  \A i \in 1..Len(ui.deletes) :
    /\ ui.deletingSnapshot = ui.deletes[i]
    /\ Cardinality(InFlight(ui.deletes[i])) <= 1

\* The Restore button of the Status tab is enabled
RestoreEnabled == ui.selectedSnapshot # <<>> /\ "restore-to-deployment" \notin ui.pending

\* C30: in the Status tab the warning is displayed whenever the Restore button
\* is enabled; the restore into the deployment is never called with an empty
\* snapshot or while a restore is pending; a successful restore clears the
\* selection and the warning.
C30_StatusTab ==
  /\ [](RestoreEnabled => WarningShown(ui, "restore-to-deployment"))
  /\ [][/\ (\E c \in ui'.calls \ ui.calls : c.op = "restore-to-deployment")
           => RestoreEnabled
        /\ ("restore-to-deployment" \in ui.pending
            /\ "restore-to-deployment" \notin ui'.pending
            /\ ui.answer = "Success")
           => (ui'.selectedSnapshot = <<>> /\ ~ui'.showRestoreWarning)]_vars

C30_Witness ==
  /\ ui.answer = "Success"
  /\ "restore-to-deployment" \notin ui.pending
  /\ ui.selectedSnapshot = <<>>
  /\ ~ui.showRestoreWarning
  /\ \E c \in ui.calls : c.op = "restore-to-deployment" /\ c.warned

====
